---- MODULE Spec2Model ----
(***************************************************************************)
(* Model of the Daikin 2.8.0 climate adapter                               *)
(* (custom_components/daikin_2_8_0/climate.py): the parameter-tree codec   *)
(* (DaikinRequest.serialize, DaikinClimate.find_value_by_pn), the refresh  *)
(* cycle (DaikinClimate.update) and the write handlers.                    *)
(*                                                                         *)
(* Python values are tagged records: None, S(string), N(number), L(list),  *)
(* D(dict).  A string whose characters the code inspects (an attribute     *)
(* value such as "2C") is a sequence of one-character strings; a string    *)
(* the code only compares as a whole (a node name, an endpoint) is a TLA+  *)
(* string.  Temperatures are integers in tenths of a degree Celsius        *)
(* (22.5 is 225), so that x / 2 and x * 2 of the source are exact.         *)
(***************************************************************************)
EXTENDS Integers, Sequences, FiniteSets, TLC

VARIABLES
    attributes,   \* DaikinRequest.attributes of the request being built
    payload,      \* what DaikinRequest.serialize returned for it
    data,         \* the response document handed to find_value_by_pn
    fr,           \* its endpoint argument
    keys,         \* its *keys argument
    found,        \* what find_value_by_pn returned
    self,         \* the DaikinClimate instance's state fields
    call          \* the last handler call: its inputs, device traffic, outcome

serVars == <<attributes, payload>>
findVars == <<data, fr, keys, found>>
devVars == <<self, call>>
vars == <<attributes, payload, data, fr, keys, found, self, call>>

----------------------------------------------------------------------------
(* Python values *)

None == [t |-> "none"]
S(x) == [t |-> "str", v |-> x]
N(x) == [t |-> "num", v |-> x]
L(x) == [t |-> "list", v |-> x]
D(x) == [t |-> "dict", v |-> x]

IsNone(x) == x.t = "none"
IsStr(x) == x.t = "str"
IsNum(x) == x.t = "num"
IsList(x) == x.t = "list"
IsDict(x) == x.t = "dict"

\* Python's ==, on values of possibly different types
PyEq(a, b) == a.t = b.t /\ a = b

\* dict.get(key, default) on a dict value
GetOr(d, key, default) == IF key \in DOMAIN d.v THEN d.v[key] ELSE default
Get(d, key) == GetOr(d, key, None)

\* The outcome of evaluating an expression: a value, or an exception raised
Ok(x) == [raised |-> FALSE, val |-> x]
Raise == [raised |-> TRUE, val |-> None]

----------------------------------------------------------------------------
(* Names of the protocol *)

EP_0100 == "/dsiot/edge/adr_0100.dgc_status"
EP_0200 == "/dsiot/edge/adr_0200.dgc_status"
EP_WEEK == "/dsiot/edge/adr_0100.i_power.week_power"
EP_ADP == "/dsiot/edge.adp_i"

TURN_OFF_SWING_AXIS == <<"0", "0", "0", "0", "0", "0">>
TURN_ON_SWING_AXIS == <<"0", "F", "0", "0", "0", "0">>

HVACModes == {"off", "heat", "cool", "auto", "dry", "fan_only"}

\* MODE_MAP: the device's mode code -> HVAC mode
MODE_MAP ==
    [c \in {<<"0","3","0","0">>, <<"0","2","0","0">>, <<"0","1","0","0">>,
            <<"0","0","0","0">>, <<"0","5","0","0">>} |->
        CASE c = <<"0","3","0","0">> -> "auto"
          [] c = <<"0","2","0","0">> -> "cool"
          [] c = <<"0","1","0","0">> -> "heat"
          [] c = <<"0","0","0","0">> -> "fan_only"
          [] c = <<"0","5","0","0">> -> "dry"]

\* REVERSE_MODE_MAP
REVERSE_MODE_MAP ==
    [m \in {MODE_MAP[c] : c \in DOMAIN MODE_MAP} |->
        CHOOSE c \in DOMAIN MODE_MAP : MODE_MAP[c] = m]

\* HVAC_TO_TEMP_HEX: the mode's target-temperature parameter
HVAC_TO_TEMP_HEX ==
    [m \in {"cool", "heat", "auto"} |->
        CASE m = "cool" -> "p_02" [] m = "heat" -> "p_03" [] m = "auto" -> "p_1D"]

----------------------------------------------------------------------------
(* DaikinAttribute and DaikinRequest.serialize *)

\* DaikinAttribute: name, to are strings, path a list of strings, value a
\* Python value
DaikinAttribute(name, value, path, to) ==
    [name |-> name, value |-> value, path |-> path, to |-> to]

\* DaikinAttribute.format
Format(a) == D([pn |-> S(a.name), pv |-> a.value])

\* A mutant of get_existing_index that never finds the child
get_existing_index_never(name, children) == 0

\* get_existing_index: index of the first child with child.get("pn") == name,
\* 0 if none (Python's -1; indices here start at 1)
get_existing_index(name, children) ==
    IF \E i \in 1..Len(children) : PyEq(Get(children[i], "pn"), S(name))
    THEN CHOOSE i \in 1..Len(children) :
            /\ PyEq(Get(children[i], "pn"), S(name))
            /\ \A j \in 1..(i - 1) : ~PyEq(Get(children[j], "pn"), S(name))
    ELSE 0

\* get_existing_to: index of the first request entry with request.get("to")
\* == to, 0 if none
get_existing_to(to, requests) ==
    IF \E i \in 1..Len(requests) : PyEq(Get(requests[i], "to"), S(to))
    THEN CHOOSE i \in 1..Len(requests) :
            /\ PyEq(Get(requests[i], "to"), S(to))
            /\ \A j \in 1..(i - 1) : ~PyEq(Get(requests[j], "to"), S(to))
    ELSE 0

\* The inner loop of serialize on one child list: for each pn of the path,
\* append a branch if no child is named pn, then descend into the LAST child
\* (entry = entry[-1]['pch']); finally append the leaf.  A last child that
\* is a leaf has no 'pch': KeyError.
RECURSIVE Descend(_, _, _)
Descend(entry, path, leaf) ==
    IF path = <<>> THEN Ok(Append(entry, leaf))
    ELSE LET pn == Head(path)
             index == get_existing_index(pn, entry)
             entry1 == IF index = 0
                       THEN Append(entry, D([pn |-> S(pn), pch |-> L(<<>>)]))
                       ELSE entry
             last == entry1[Len(entry1)]
         IN  IF "pch" \notin DOMAIN last.v THEN Raise
             ELSE LET sub == Descend(last.v.pch.v, Tail(path), leaf)
                  IN  IF sub.raised THEN Raise
                      ELSE Ok([entry1 EXCEPT ![Len(entry1)].v.pch.v = sub.val])

\* One iteration of serialize's loop over self.attributes
AddAttribute(requests, attribute) ==
    LET to == get_existing_to(attribute.to, requests)
        requests1 ==
            IF to = 0
            THEN Append(requests,
                        D([op |-> N(3),
                           pc |-> D([pn |-> S("dgc_status"), pch |-> L(<<>>)]),
                           to |-> S(attribute.to)]))
            ELSE requests
        at == IF to = 0 THEN Len(requests1) ELSE to
        sub == Descend(requests1[at].v.pc.v.pch.v, attribute.path,
                       Format(attribute))
    IN  IF sub.raised THEN Raise
        ELSE Ok([requests1 EXCEPT ![at].v.pc.v.pch.v = sub.val])

RECURSIVE SerializeFrom(_, _)
SerializeFrom(requests, attrs) ==
    IF attrs = <<>> THEN Ok(D([requests |-> L(requests)]))
    ELSE LET r == AddAttribute(requests, Head(attrs))
         IN  IF r.raised THEN Raise ELSE SerializeFrom(r.val, Tail(attrs))

\* DaikinRequest(attrs).serialize() with payload=None: the document
\* {'requests': [...]}, or the exception
serialize(attrs) == SerializeFrom(<<>>, attrs)

----------------------------------------------------------------------------
(* DaikinClimate.find_value_by_pn *)

\* What a block of find_value_by_pn ends with: a return statement, falling
\* through to the next statement, or an exception
Ret(x) == [k |-> "ret", val |-> x]
Fall == [k |-> "fall", val |-> None]
Exc == [k |-> "exc", val |-> None]

\* The elements a Python for loop draws from x: a list's elements, a
\* string's characters, a dict's keys (only the first is given: every use
\* below raises on it); iterating a number or None raises TypeError
Iter(x) ==
    CASE IsList(x) -> Ok(x.v)
      [] IsStr(x) -> Ok([i \in 1..Len(x.v) |-> S(<<x.v[i]>>)])
      [] IsDict(x) -> Ok(IF DOMAIN x.v = {} THEN <<>>
                         ELSE <<S(CHOOSE key \in DOMAIN x.v : TRUE)>>)
      [] OTHER -> Raise

\* The nested loops of the special cases:
\*   for item in node.get('pch', []):
\*       if item.get('pn') == names[0]:
\*           (the same loop over item with names[1:]; at the last name:)
\*           return item.get('pv')
\* .get on a node that is no dict raises AttributeError.
RECURSIVE ScanItems(_, _)
ScanItems(items, names) ==
    IF items = <<>> THEN Fall
    ELSE LET item == Head(items)
         IN  IF ~IsDict(item) THEN Exc
             ELSE IF PyEq(Get(item, "pn"), S(Head(names)))
                  THEN IF Len(names) = 1 THEN Ret(Get(item, "pv"))
                       ELSE LET it == Iter(GetOr(item, "pch", L(<<>>)))
                                r == IF it.raised THEN Exc
                                     ELSE ScanItems(it.val, Tail(names))
                            IN  IF r.k = "fall"
                                THEN ScanItems(Tail(items), names)
                                ELSE r
                  ELSE ScanItems(Tail(items), names)

Scan(pc, names) ==
    IF ~IsDict(pc) THEN Exc
    ELSE LET it == Iter(GetOr(pc, "pch", L(<<>>)))
         IN  IF it.raised THEN Exc ELSE ScanItems(it.val, names)

\* The loop of the week_power special case: the first child named
\* today_runtime or datas is returned, whichever was asked for
RECURSIVE WeekItems(_)
WeekItems(items) ==
    IF items = <<>> THEN Fall
    ELSE LET item == Head(items)
         IN  IF ~IsDict(item) THEN Exc
             ELSE IF PyEq(Get(item, "pn"), S("today_runtime"))
                  THEN Ret(Get(item, "pv"))
                  ELSE IF PyEq(Get(item, "pn"), S("datas"))
                       THEN Ret(Get(item, "pv"))
                       ELSE WeekItems(Tail(items))

WeekScan(pc, endpoint) ==
    IF endpoint # EP_WEEK THEN Fall
    ELSE IF ~IsDict(pc) THEN Exc
    ELSE IF ~PyEq(Get(pc, "pn"), S("week_power")) THEN Fall
    ELSE LET it == Iter(GetOr(pc, "pch", L(<<>>)))
         IN  IF it.raised THEN Exc ELSE WeekItems(it.val)

InSeq(x, seq) == \E i \in 1..Len(seq) : seq[i] = x
Last(seq) == seq[Len(seq)]

\* r, or, if r fell through, what the following statements give
OrElse(r, next) == IF r.k = "fall" THEN next ELSE r

\* The special cases of find_value_by_pn, in the order of the source, on
\* the keys left after the root name was skipped
SpecialCases(pc, endpoint, ks) ==
    IF InSeq("e_3001", ks) /\ Last(ks) \in {"p_02", "p_03", "p_1D"}
    THEN OrElse(Scan(pc, <<"e_1002", "e_3001", Last(ks)>>), Ret(None))
    ELSE
    OrElse(IF InSeq("e_A00D", ks) /\ InSeq("p_01", ks) /\ Last(ks) = "p_01"
           THEN Scan(pc, <<"e_1003", "e_A00D", "p_01">>) ELSE Fall,
    OrElse(IF InSeq("e_A00B", ks) /\ (InSeq("p_01", ks) \/ InSeq("p_02", ks))
           THEN Scan(pc, <<"e_1002", "e_A00B", Last(ks)>>) ELSE Fall,
    OrElse(IF InSeq("e_A002", ks) /\ InSeq("p_01", ks)
           THEN Scan(pc, <<"e_1002", "e_A002", "p_01">>) ELSE Fall,
    OrElse(IF InSeq("e_3001", ks) /\ InSeq("p_01", ks)
           THEN Scan(pc, <<"e_1002", "e_3001", "p_01">>) ELSE Fall,
    OrElse(WeekScan(pc, endpoint),
           Ret(None))))))

\* The statements of find_value_by_pn after the check for 'responses'
FindInResponses(doc, endpoint, ks) ==
    IF "responses" \notin DOMAIN doc.v THEN Exc      \* data['responses']
    ELSE
    LET it == Iter(doc.v.responses)
    IN  IF it.raised \/ \E i \in 1..Len(it.val) : ~IsDict(it.val[i]) THEN Exc
        ELSE
        LET matching == SelectSeq(it.val,
                            LAMBDA x : PyEq(Get(x, "fr"), S(endpoint)))
        IN  IF matching = <<>> THEN Ret(None)
            ELSE
            LET pc == GetOr(matching[1], "pc", D(<<>>))
            IN  IF ks = <<>> THEN SpecialCases(pc, endpoint, ks)
                ELSE IF ~IsDict(pc) THEN Exc
                ELSE IF PyEq(Get(pc, "pn"), S(ks[1]))
                     THEN SpecialCases(pc, endpoint, Tail(ks))
                     ELSE SpecialCases(pc, endpoint, ks)

\* The try block of find_value_by_pn
FindBody(doc, endpoint, ks) ==
    IF "responses" \notin DOMAIN doc.v THEN Ret(None)
    ELSE FindInResponses(doc, endpoint, ks)

\* A mutant of find_value_by_pn without the check for 'responses' and
\* without the except clause: the KeyError reaches the caller
find_value_by_pn_unguarded(doc, endpoint, ks) ==
    LET r == FindInResponses(doc, endpoint, ks)
    IN  IF r.k = "exc" THEN Raise ELSE Ok(r.val)

\* find_value_by_pn(data, fr, *keys): `except Exception: return None` turns
\* every exception of the body into None
find_value_by_pn(doc, endpoint, ks) ==
    LET r == FindBody(doc, endpoint, ks)
    IN  IF r.k = "exc" THEN Ok(None) ELSE Ok(r.val)

----------------------------------------------------------------------------
(* Number conversions *)

LowerDigits ==
    <<"0", "1", "2", "3", "4", "5", "6", "7", "8", "9",
      "a", "b", "c", "d", "e", "f">>
UpperDigits ==
    <<"0", "1", "2", "3", "4", "5", "6", "7", "8", "9",
      "A", "B", "C", "D", "E", "F">>

\* The value of each digit character
DigitValues ==
    [c \in {LowerDigits[i] : i \in 1..16} \cup {UpperDigits[i] : i \in 1..16} |->
        (CHOOSE i \in 1..16 : LowerDigits[i] = c \/ UpperDigits[i] = c) - 1]

\* The value of a digit character, -1 for a character that is no digit
DigitValue(c) == IF c \in DOMAIN DigitValues THEN DigitValues[c] ELSE -1

RECURSIVE ParseDigits(_, _, _)
ParseDigits(chars, base, acc) ==
    IF chars = <<>> THEN acc
    ELSE ParseDigits(Tail(chars), base, acc * base + DigitValue(Head(chars)))

\* int(x, base) on a string of digits: the number, or ValueError
ParseInt(chars, base) ==
    IF /\ chars # <<>>
       /\ \A i \in 1..Len(chars) :
             DigitValue(chars[i]) >= 0 /\ DigitValue(chars[i]) < base
    THEN Ok(ParseDigits(chars, base, 0))
    ELSE Raise

\* value[:2]
FirstTwo(chars) == SubSeq(chars, 1, IF Len(chars) < 2 THEN Len(chars) ELSE 2)

\* format(n, '02x') for n >= 0
RECURSIVE HexDigitsOf(_)
HexDigitsOf(n) ==
    IF n < 16 THEN <<LowerDigits[n + 1]>>
    ELSE Append(HexDigitsOf(n \div 16), LowerDigits[(n % 16) + 1])

Format02x(n) == IF n < 16 THEN <<"0">> \o HexDigitsOf(n) ELSE HexDigitsOf(n)

\* A mutant of hex_to_temp that ignores the divisor and always halves
hex_to_temp_halved(value, divisor) ==
    IF IsStr(value) /\ ~ParseInt(FirstTwo(value.v), 16).raised
    THEN N(ParseInt(FirstTwo(value.v), 16).val * 5)
    ELSE None

\* hex_to_temp(value, divisor): int(value[:2], 16) / divisor in tenths of a
\* degree; None for None and when ValueError, IndexError or TypeError is
\* raised (a number or a list in place of the string)
hex_to_temp(value, divisor) ==
    IF IsStr(value) /\ ~ParseInt(FirstTwo(value.v), 16).raised
    THEN N((ParseInt(FirstTwo(value.v), 16).val * 10) \div divisor)
    ELSE None

\* len(x): TypeError for a number or None
PyLen(x) ==
    CASE IsStr(x) \/ IsList(x) -> Ok(Len(x.v))
      [] IsDict(x) -> Ok(Cardinality(DOMAIN x.v))
      [] OTHER -> Raise

----------------------------------------------------------------------------
(* DaikinClimate.update *)

\* The lookups update makes in a response: (endpoint, keys)
UpdateEntities == {"e_A002", "e_3001", "e_3003", "e_A00B"}
UpdateNames ==
    {"p_01", "p_02", "p_03", "p_1D", "p_2A", "p_09", "p_0A", "p_28",
     "p_05", "p_06", "p_07", "p_08", "p_20", "p_21"}
UpdateQueries ==
    {<<EP_0100, <<"dgc_status", "e_1002", e, n>>>> :
        e \in UpdateEntities, n \in UpdateNames}
    \cup {<<EP_0200, <<"dgc_status", "e_1003", "e_A00D", "p_01">>>>,
          <<EP_WEEK, <<"week_power", "datas">>>>,
          <<EP_WEEK, <<"week_power", "today_runtime">>>>}

\* What find_value_by_pn returns for each lookup of update on a document
Lookups(json) ==
    [q \in UpdateQueries |-> find_value_by_pn(json, q[1], q[2]).val]

\* What the device answers to an HTTP request: a transport failure (no
\* connection, a status that is not 2xx, a body that is not JSON) or a JSON
\* document, with what find_value_by_pn finds in it
TransportFailure == [ok |-> FALSE]
Answer(json) == [ok |-> TRUE, json |-> json, find |-> Lookups(json)]

\* self.find_value_by_pn(data, fr, *keys) on the document of an answer
Found(doc, endpoint, ks) == doc.find[<<endpoint, ks>>]

\* The one element of a set: Only({e(x) : x \in {v}}) is e of the value v
Only(set) == CHOOSE x \in set : TRUE

\* The outcome of a statement of update: the fields so far, and whether an
\* exception left the try block
Go(st) == [raised |-> FALSE, st |-> st]
Abort(st) == [raised |-> TRUE, st |-> st]

\* Lines 675-680: the HVAC mode from the power state and the mode code.
\* MODE_MAP.get raises TypeError on an unhashable (list, dict) mode value.
HvacModeStep(st, doc) ==
    LET power_state == Found(doc, EP_0100,
                           <<"dgc_status", "e_1002", "e_A002", "p_01">>)
        is_off == IF ~IsNone(power_state)
                  THEN PyEq(power_state, S(<<"0", "0">>)) ELSE TRUE
        mode_value == Found(doc, EP_0100,
                          <<"dgc_status", "e_1002", "e_3001", "p_01">>)
    IN  IF is_off THEN Go([st EXCEPT !.hvac_mode = "off"])
        ELSE IF IsList(mode_value) \/ IsDict(mode_value) THEN Abort(st)
        ELSE IF IsStr(mode_value) /\ mode_value.v \in DOMAIN MODE_MAP
             THEN Go([st EXCEPT !.hvac_mode = MODE_MAP[mode_value.v]])
             ELSE Go([st EXCEPT !.hvac_mode = "off"])

\* _extract_outside_temperature
extract_outside_temperature(doc) ==
    LET outside_temp_hex == Found(doc, EP_0200,
                                <<"dgc_status", "e_1003", "e_A00D", "p_01">>)
    IN  CASE IsStr(outside_temp_hex) -> hex_to_temp(outside_temp_hex, 2)
          [] IsNum(outside_temp_hex) -> N(outside_temp_hex.v * 5)
          [] OTHER -> None

OutsideStep(st, doc) ==
    Go([st EXCEPT !.outside_temperature = extract_outside_temperature(doc)])

\* Lines 725-740: the target temperature from the value found.  A value of
\* length 2 is hex, halved; any other is tried as decimal, halved, and as hex
\* when that raises ValueError.  len() of a number and int() of a list raise
\* TypeError, which leaves the try block.
TargetFromHex(st, target_temp_hex) ==
    LET n == PyLen(target_temp_hex)
    IN  IF n.raised THEN Abort(st)
        ELSE IF n.val = 2
        THEN Go([st EXCEPT !.target_temperature = hex_to_temp(target_temp_hex, 2)])
        ELSE IF ~IsStr(target_temp_hex) THEN Abort(st)
        ELSE LET dec == ParseInt(target_temp_hex.v, 10)
             IN  IF dec.raised
                 THEN Go([st EXCEPT !.target_temperature =
                                        hex_to_temp(target_temp_hex, 2)])
                 ELSE Go([st EXCEPT !.target_temperature = N(dec.val * 5)])

\* Lines 707-720: the loops that log the parameters of e_3001 when no target
\* was found.  They assign nothing; they raise where the children of a node
\* cannot be iterated or a node is no object.
RECURSIVE LogRaises(_, _)
LogRaises(node, names) ==
    LET it == Iter(GetOr(node, "pch", L(<<>>)))
    IN  \/ it.raised
        \/ \E i \in 1..Len(it.val) :
              \/ ~IsDict(it.val[i])
              \/ /\ names # <<>>
                 /\ PyEq(Get(it.val[i], "pn"), S(Head(names)))
                 /\ LogRaises(it.val[i], Tail(names))

DirectApproachRaises(json) ==
    LET it == Iter(GetOr(json, "responses", L(<<>>)))
    IN  \/ it.raised
        \/ \E i \in 1..Len(it.val) :
              \/ ~IsDict(it.val[i])
              \/ /\ PyEq(Get(it.val[i], "fr"), S(EP_0100))
                 /\ \/ ~IsDict(GetOr(it.val[i], "pc", D(<<>>)))
                    \/ LogRaises(GetOr(it.val[i], "pc", D(<<>>)),
                                 <<"e_1002", "e_3001">>)

\* Lines 684-743.  The second lookup (lines 693-705) repeats the first with
\* the same arguments and finds what the first found.
TargetStep(st, doc) ==
    IF st.hvac_mode \in DOMAIN HVAC_TO_TEMP_HEX
    THEN LET target_temp_hex ==
                 Found(doc, EP_0100,
                     <<"dgc_status", "e_1002", "e_3001",
                       HVAC_TO_TEMP_HEX[st.hvac_mode]>>)
         IN  IF ~IsNone(target_temp_hex) THEN TargetFromHex(st, target_temp_hex)
             ELSE IF DirectApproachRaises(doc.json) THEN Abort(st)
             ELSE Go([st EXCEPT !.target_temperature = None])
    ELSE Go([st EXCEPT !.target_temperature = None])

\* Lines 745-751: the indoor temperature, not halved
CurrentStep(st, doc) ==
    LET current_temp_hex == Found(doc, EP_0100,
                                <<"dgc_status", "e_1002", "e_A00B", "p_01">>)
    IN  IF ~IsNone(current_temp_hex)
        THEN Go([st EXCEPT !.current_temperature = hex_to_temp(current_temp_hex, 1)])
        ELSE Go([st EXCEPT !.current_temperature = None])

\* HAFanMode
FanLevels == <<"Level 1", "Level 2", "Level 3", "Level 4", "Level 5">>
FanModes == {"Quiet", "Auto"} \cup {FanLevels[i] : i \in 1..5}

\* FAN_MODE_MAP
FAN_MODE_MAP ==
    [m \in FanModes |->
        CASE m = "Auto" -> <<"0", "A", "0", "0">>
          [] m = "Quiet" -> <<"0", "B", "0", "0">>
          [] m = "Level 1" -> <<"0", "3", "0", "0">>
          [] m = "Level 2" -> <<"0", "4", "0", "0">>
          [] m = "Level 3" -> <<"0", "5", "0", "0">>
          [] m = "Level 4" -> <<"0", "6", "0", "0">>
          [] m = "Level 5" -> <<"0", "7", "0", "0">>]

\* REVERSE_FAN_MODE_MAP
REVERSE_FAN_MODE_MAP ==
    [c \in {FAN_MODE_MAP[m] : m \in FanModes} |->
        CHOOSE m \in FanModes : FAN_MODE_MAP[m] = c]

\* HVAC_MODE_TO_FAN_SPEED_ATTR_NAME
HVAC_MODE_TO_FAN_SPEED_ATTR_NAME ==
    [m \in {"auto", "cool", "heat", "fan_only"} |->
        CASE m = "auto" -> "p_2A" [] m = "cool" -> "p_09"
          [] m = "heat" -> "p_0A" [] m = "fan_only" -> "p_28"]

\* FAN_SPEED_ENTITY_MAP
FAN_SPEED_ENTITY_MAP(name) == IF name = "p_2A" THEN "e_3003" ELSE "e_3001"

\* HVAC_MODE_TO_SWING_ATTR_NAMES: (vertical, horizontal)
HVAC_MODE_TO_SWING_ATTR_NAMES ==
    [m \in {"auto", "cool", "heat", "fan_only", "dry"} |->
        IF m = "heat" THEN <<"p_07", "p_08">> ELSE <<"p_05", "p_06">>]

\* Lines 779-798: the fan level of p_2A, a single byte
FanLevelSingleByte(fan_level) ==
    CASE fan_level = 0 -> "Auto"
      [] fan_level = 11 -> "Quiet"
      [] fan_level = 9 -> "Level 5"
      [] fan_level >= 3 /\ fan_level <= 7 -> FanLevels[fan_level - 2]
      [] OTHER -> "Auto"

\* Lines 809-818: the fan level of a value that is not in the reverse map
FanLevelDirect(fan_level) ==
    CASE fan_level = 10 -> "Auto"
      [] fan_level = 11 -> "Quiet"
      [] fan_level = 7 -> "Level 5"
      [] fan_level >= 3 /\ fan_level <= 7 -> FanLevels[fan_level - 2]
      [] OTHER -> "Auto"

\* Lines 777-821: the fan mode from the value found.  ValueError ends in
\* Auto; TypeError (len of a number, int of a list, an unhashable value
\* looked up in the reverse map) leaves the try block of update.
FanFromValue(st, name, value) ==
    LET n == PyLen(value)
    IN  IF name = "p_2A" /\ n.raised THEN Abort(st)
        ELSE IF name = "p_2A" /\ n.val <= 2
        THEN IF ~IsStr(value) THEN Abort(st)
             ELSE LET level == ParseInt(value.v, 16)
                  IN  Go([st EXCEPT !.fan_mode =
                             IF level.raised THEN "Auto"
                             ELSE FanLevelSingleByte(level.val)])
        ELSE IF IsList(value) \/ IsDict(value) THEN Abort(st)
        ELSE IF IsStr(value) /\ value.v \in DOMAIN REVERSE_FAN_MODE_MAP
        THEN Go([st EXCEPT !.fan_mode = REVERSE_FAN_MODE_MAP[value.v]])
        ELSE IF ~IsStr(value) THEN Abort(st)
        ELSE LET level == IF Len(value.v) > 1 THEN ParseInt(value.v, 16)
                          ELSE ParseInt(value.v, 10)
             IN  Go([st EXCEPT !.fan_mode =
                        IF level.raised THEN "Auto"
                        ELSE FanLevelDirect(level.val)])

\* Lines 753-825
FanStep(st, doc) ==
    IF st.hvac_mode \in DOMAIN HVAC_MODE_TO_FAN_SPEED_ATTR_NAME
    THEN LET name == HVAC_MODE_TO_FAN_SPEED_ATTR_NAME[st.hvac_mode]
             entity_name == FAN_SPEED_ENTITY_MAP(name)
             other == IF entity_name = "e_3001" THEN "e_3003" ELSE "e_3001"
             first == Found(doc, EP_0100,
                          <<"dgc_status", "e_1002", entity_name, name>>)
             fan_mode_value ==
                 IF IsNone(first)
                 THEN Found(doc, EP_0100,
                          <<"dgc_status", "e_1002", other, name>>)
                 ELSE first
         IN  IF ~IsNone(fan_mode_value) THEN FanFromValue(st, name, fan_mode_value)
             ELSE Go([st EXCEPT !.fan_mode = "Auto"])
    ELSE Go([st EXCEPT !.fan_mode = "Auto"])

\* Lines 827-831: int(humidity_hex, 16) raises ValueError on a string that
\* is not hex and TypeError on a value that is no string
HumidityStep(st, doc) ==
    LET humidity_hex == Found(doc, EP_0100,
                            <<"dgc_status", "e_1002", "e_A00B", "p_02">>)
    IN  IF IsNone(humidity_hex) THEN Go([st EXCEPT !.current_humidity = None])
        ELSE IF ~IsStr(humidity_hex) THEN Abort(st)
        ELSE LET h == ParseInt(humidity_hex.v, 16)
             IN  IF h.raised THEN Abort(st)
                 ELSE Go([st EXCEPT !.current_humidity = N(h.val)])

\* "F" in value: a character of a string, an element of a list, a key of a
\* dict; TypeError for a number
ContainsF(value) ==
    CASE IsNone(value) -> Ok(FALSE)
      [] IsStr(value) -> Ok(\E i \in 1..Len(value.v) : value.v[i] = "F")
      [] IsList(value) ->
            Ok(\E i \in 1..Len(value.v) : PyEq(value.v[i], S(<<"F">>)))
      [] IsDict(value) -> Ok("F" \in DOMAIN value.v)
      [] OTHER -> Raise

\* The first of the values that is not None, None if there is none
FirstFound(values) ==
    IF \E i \in 1..Len(values) : ~IsNone(values[i])
    THEN values[CHOOSE i \in 1..Len(values) :
                    /\ ~IsNone(values[i])
                    /\ \A j \in 1..(i - 1) : IsNone(values[j])]
    ELSE None

\* get_swing_state
get_swing_state(hvac_mode, doc) ==
    LET names == HVAC_MODE_TO_SWING_ATTR_NAMES[hvac_mode]
        At(entity, name) ==
            Found(doc, EP_0100,
                <<"dgc_status", "e_1002", entity, name>>)
        vertical_value == FirstFound(<<At("e_3001", names[1]),
                                       At("e_3003", names[1]),
                                       At("e_3001", "p_20")>>)
        horizontal_value == FirstFound(<<At("e_3001", names[2]),
                                         At("e_3003", names[2]),
                                         At("e_3001", "p_21")>>)
        vertical == ContainsF(vertical_value)
        horizontal == ContainsF(horizontal_value)
    IN  IF vertical.raised \/ horizontal.raised THEN Raise
        ELSE Ok(CASE horizontal.val /\ vertical.val -> "both"
                  [] horizontal.val -> "horizontal"
                  [] vertical.val -> "vertical"
                  [] OTHER -> "off")

\* Lines 833-834
SwingStep(st, doc) ==
    IF st.hvac_mode # "off"
    THEN LET swing == get_swing_state(st.hvac_mode, doc)
         IN  IF swing.raised THEN Abort(st)
             ELSE Go([st EXCEPT !.swing_mode = swing.val])
    ELSE Go(st)

\* int(x): a number as it is, a string of decimal digits parsed (ValueError
\* otherwise), TypeError for a list, a dict or None
PyInt(x) ==
    CASE IsNum(x) -> Ok(x.v)
      [] IsStr(x) -> ParseInt(x.v, 10)
      [] OTHER -> Raise

\* Lines 836-865: energy and runtime, in their own try block: an exception
\* zeroes both
EnergyStep(st, doc) ==
    LET energy_data == Found(doc, EP_WEEK, <<"week_power", "datas">>)
        energy == CASE IsList(energy_data) /\ Len(energy_data.v) > 0 ->
                          PyInt(energy_data.v[Len(energy_data.v)])
                    [] IsNum(energy_data) -> Ok(energy_data.v)
                    [] OTHER -> Ok(0)
        runtime_data == Found(doc, EP_WEEK,
                            <<"week_power", "today_runtime">>)
        runtime == IF IsNone(runtime_data) \/ PyInt(runtime_data).raised
                   THEN 0 ELSE PyInt(runtime_data).val
    IN  IF energy.raised
        THEN Go([st EXCEPT !.energy_today = N(0), !.runtime_today = N(0)])
        ELSE Go([st EXCEPT !.energy_today = N(energy.val),
                           !.runtime_today = N(runtime)])

\* The statements of the try block of update, in the order of the source
Statement(i, st, doc) ==
    CASE i = 1 -> HvacModeStep(st, doc)
      [] i = 2 -> OutsideStep(st, doc)
      [] i = 3 -> TargetStep(st, doc)
      [] i = 4 -> CurrentStep(st, doc)
      [] i = 5 -> FanStep(st, doc)
      [] i = 6 -> HumidityStep(st, doc)
      [] i = 7 -> SwingStep(st, doc)
      [] i = 8 -> EnergyStep(st, doc)

\* Statement i and those after it, on the outcome r of the statements before:
\* skipped when an exception has left the try block
RECURSIVE StatementsFrom(_, _, _)
StatementsFrom(i, r, doc) ==
    IF i > 8 THEN r
    ELSE StatementsFrom(i + 1,
             Only({IF x.raised THEN x ELSE Statement(i, x.st, doc) : x \in {r}}),
             doc)

\* A mutant of update that clears the temperatures before the request
Update_clearing_first(st, answer) ==
    IF ~answer.ok
    THEN [st EXCEPT !.target_temperature = None, !.current_temperature = None,
                    !.outside_temperature = None]
    ELSE StatementsFrom(1, Go(st), answer).st

\* update(): a transport failure leaves the try block before anything is
\* assigned; else the statements run in turn, each on the fields the one
\* before left, and an exception keeps what was assigned so far
Update(st, answer) ==
    IF ~answer.ok THEN st
    ELSE StatementsFrom(1, Go(st), answer).st

----------------------------------------------------------------------------
(* Specification SpecSer: requests built from bounded lists of writes *)

MaxAttrs == 3

SerPaths == {<<>>, <<"e_1002", "e_3001">>, <<"e_1002", "e_3003">>}
SerNames == {"p_01", "p_2A"}
SerValues == {<<"0", "0">>, <<"2", "c">>}
SerEndpoints == {EP_0100, EP_0200}

SerAttributes ==
    {DaikinAttribute(n, S(v), p, e) :
        n \in SerNames, v \in SerValues, p \in SerPaths, e \in SerEndpoints}

NoCall == [op |-> "none"]
NotCalled == [called |-> FALSE]

\* DaikinClimate.__init__: the fields a refresh or a write changes
InitSelf ==
    [hvac_mode |-> "off", fan_mode |-> "Quiet", swing_mode |-> "off",
     outside_temperature |-> None, target_temperature |-> None,
     current_temperature |-> None, current_humidity |-> None,
     runtime_today |-> N(0), energy_today |-> N(0), mac |-> None]

SerInit ==
    /\ attributes = <<>>
    /\ payload = serialize(<<>>)
    /\ data = D(<<>>) /\ fr = "" /\ keys = <<>> /\ found = NotCalled
    /\ self = InitSelf /\ call = NoCall

\* A caller appends one more DaikinAttribute and serializes the request
SerAppend ==
    /\ Len(attributes) < MaxAttrs
    /\ \E a \in SerAttributes :
          /\ attributes' = Append(attributes, a)
          /\ payload' = serialize(attributes')
    /\ UNCHANGED <<findVars, devVars>>

SerNext == SerAppend

SpecSer == SerInit /\ [][SerNext]_vars

----------------------------------------------------------------------------
(* Response documents *)

Leaf(pn, pv) == D([pn |-> S(pn), pv |-> pv])
Branch(pn, children) == D([pn |-> S(pn), pch |-> L(children)])
Response(endpoint, rsc, pc) == D([fr |-> S(endpoint), rsc |-> N(rsc), pc |-> pc])
Document(responses) == D([responses |-> L(responses)])

\* The week_power tree with the given children
WeekPower(children) == Response(EP_WEEK, 2000, Branch("week_power", children))

Datas == Leaf("datas", L(<<N(100), N(200), N(300)>>))
TodayRuntime == Leaf("today_runtime", N(55))

\* The primary status tree of a unit that is on, cooling to 22.0 at 24 C
StatusTree ==
    Branch("dgc_status", <<
        Branch("e_1002", <<
            Branch("e_A002", <<Leaf("p_01", S(<<"0", "1">>))>>),
            Branch("e_3001", <<Leaf("p_01", S(<<"0", "2", "0", "0">>)),
                               Leaf("p_02", S(<<"2", "C">>)),
                               Leaf("p_09", S(<<"0", "A", "0", "0">>)),
                               Leaf("p_05", S(TURN_ON_SWING_AXIS))>>),
            Branch("e_3003", <<Leaf("p_2A", S(<<"0", "B">>))>>),
            Branch("e_A00B", <<Leaf("p_01", S(<<"1", "8">>)),
                               Leaf("p_02", S(<<"3", "2">>))>>)>>)>>)

OutdoorTree ==
    Branch("dgc_status", <<
        Branch("e_1003", <<
            Branch("e_A00D", <<Leaf("p_01", S(<<"3", "0">>))>>)>>)>>)

FullDocument(week) ==
    Document(<<Response(EP_0100, 2000, StatusTree),
               Response(EP_0200, 2000, OutdoorTree),
               WeekPower(week)>>)

\* Documents of the wrong shape: children that are no list, a node that is
\* no object, a branch without pch, a pc that is no object, an entry that
\* is no object, a responses value that is no list
MalformedDocuments ==
    {Document(<<Response(EP_0100, 2000,
        D([pn |-> S("dgc_status"), pch |-> N(7)]))>>),
     Document(<<Response(EP_0100, 2000,
        Branch("dgc_status", <<S(<<"x">>), Branch("e_1002", <<>>)>>))>>),
     Document(<<Response(EP_0100, 2000,
        Branch("dgc_status", <<
            D([pn |-> S("e_1002")]),
            Branch("e_1002", <<D([pn |-> S("e_3001"), pch |-> None])>>)>>))>>),
     Document(<<Response(EP_0100, 2000, N(0))>>),
     Document(<<N(1), Response(EP_0100, 2000, StatusTree)>>),
     D([responses |-> None])}

FindDocuments ==
    {FullDocument(<<Datas, TodayRuntime>>),
     FullDocument(<<TodayRuntime, Datas>>),
     FullDocument(<<TodayRuntime>>),
     FullDocument(<<Datas>>),
     Document(<<Response(EP_0200, 2000, OutdoorTree)>>),
     Document(<<>>),
     D([error |-> S(<<"x">>)]),
     D(<<>>)}
    \cup MalformedDocuments

FindEndpoints == {EP_0100, EP_0200, EP_WEEK, EP_ADP}

\* The key tuples the adapter passes to find_value_by_pn
FindKeys ==
    {<<"dgc_status", "e_1002", "e_A002", "p_01">>,
     <<"dgc_status", "e_1002", "e_3001", "p_01">>,
     <<"dgc_status", "e_1002", "e_3001", "p_02">>,
     <<"dgc_status", "e_1002", "e_3001", "p_03">>,
     <<"dgc_status", "e_1002", "e_3001", "p_09">>,
     <<"dgc_status", "e_1002", "e_3001", "p_05">>,
     <<"dgc_status", "e_1002", "e_3003", "p_2A">>,
     <<"dgc_status", "e_1002", "e_A00B", "p_01">>,
     <<"dgc_status", "e_1002", "e_A00B", "p_02">>,
     <<"dgc_status", "e_1003", "e_A00D", "p_01">>,
     <<"week_power", "datas">>,
     <<"week_power", "today_runtime">>,
     <<"adp_i", "mac">>}

----------------------------------------------------------------------------
(* Specification SpecFind: find_value_by_pn applied to bounded inputs *)

FindInit ==
    /\ data \in FindDocuments
    /\ fr \in FindEndpoints
    /\ keys \in FindKeys
    /\ found = NotCalled
    /\ attributes = <<>> /\ payload = serialize(<<>>)
    /\ self = InitSelf /\ call = NoCall

\* A caller looks the keys up in the document
FindCall ==
    /\ ~found.called
    /\ found' = [called |-> TRUE] @@ find_value_by_pn(data, fr, keys)
    /\ UNCHANGED <<data, fr, keys, serVars, devVars>>

FindNext == FindCall

SpecFind == FindInit /\ [][FindNext]_vars

----------------------------------------------------------------------------
(* The write handlers *)

\* The status code update_attribute reads: response['responses'][0]['rsc'];
\* KeyError, IndexError or TypeError when the document has another shape
FirstRsc(doc) ==
    IF /\ IsDict(doc)
       /\ "responses" \in DOMAIN doc.v
       /\ IsList(doc.v.responses)
       /\ Len(doc.v.responses.v) > 0
       /\ IsDict(doc.v.responses.v[1])
       /\ "rsc" \in DOMAIN doc.v.responses.v[1].v
    THEN Ok(doc.v.responses.v[1].v.rsc)
    ELSE Raise

\* What a handler did: the fields it left, whether it raised, the write
\* requests it sent, the answers to them, the number of refreshes it ran and
\* the answer the last refresh got
NoAnswer == [ok |-> FALSE, none |-> TRUE]

\* The exception a handler raised: its class and, for the exception
\* update_attribute builds around the response, the document in its message
NoError == [type |-> "none"]
RequestException == [type |-> "RequestException"]
LookupOrTypeError == [type |-> "LookupError or TypeError"]
ExceptionAbout(response) == [type |-> "Exception", response |-> response]
ExceptionUnknownMode == [type |-> "Exception"]

Outcome(st, raised, sent, replies, refreshes, answer) ==
    [st |-> st, raised |-> raised, sent |-> sent, replies |-> replies,
     refreshes |-> refreshes, answer |-> answer, error |-> NoError]

\* The outcome of a handler left by an exception
Raised(st, error, sent, replies) ==
    [Outcome(st, TRUE, sent, replies, 0, NoAnswer) EXCEPT !.error = error]

\* A mutant of update_attribute that fails on the rejection code 4000 only
update_attribute_rejection_only(st, request, reply, refresh) ==
    IF ~reply.ok
    THEN Raised(st, RequestException, <<request>>, <<reply>>)
    ELSE IF FirstRsc(reply.json).raised
    THEN Raised(st, LookupOrTypeError, <<request>>, <<reply>>)
    ELSE IF PyEq(FirstRsc(reply.json).val, N(4000))
    THEN Raised(st, ExceptionAbout(reply.json), <<request>>, <<reply>>)
    ELSE Outcome(Update(st, refresh), FALSE, <<request>>, <<reply>>, 1, refresh)

\* A mutant of update_attribute that refreshes before it looks at the status
update_attribute_refresh_first(st, request, reply, refresh) ==
    IF ~reply.ok
    THEN Raised(st, RequestException, <<request>>, <<reply>>)
    ELSE IF FirstRsc(reply.json).raised
    THEN Raised(st, LookupOrTypeError, <<request>>, <<reply>>)
    ELSE IF ~PyEq(FirstRsc(reply.json).val, N(2004))
    THEN [Raised(Update(st, refresh), ExceptionAbout(reply.json),
                 <<request>>, <<reply>>) EXCEPT !.refreshes = 1]
    ELSE Outcome(Update(st, refresh), FALSE, <<request>>, <<reply>>, 1, refresh)

\* update_attribute(request): PUT the request; requests.put or .json() may
\* raise; the subscripts raise on a document of another shape; raise
\* Exception around the response unless the first response entry has rsc
\* 2004; then update()
update_attribute(st, request, reply, refresh) ==
    IF ~reply.ok
    THEN Raised(st, RequestException, <<request>>, <<reply>>)
    ELSE IF FirstRsc(reply.json).raised
    THEN Raised(st, LookupOrTypeError, <<request>>, <<reply>>)
    ELSE IF ~PyEq(FirstRsc(reply.json).val, N(2004))
    THEN Raised(st, ExceptionAbout(reply.json), <<request>>, <<reply>>)
    ELSE Outcome(Update(st, refresh), FALSE, <<request>>, <<reply>>, 1, refresh)

\* int(temperature * 2) for a temperature in tenths of a degree
DoubledInt(temperature) == (temperature * 2) \div 10

\* A mutant of set_temperature that leaves the target to the refresh
set_temperature_no_commit(st, temperature, reply, refresh) ==
    IF st.hvac_mode \notin DOMAIN HVAC_TO_TEMP_HEX
    THEN Outcome(st, FALSE, <<>>, <<>>, 0, NoAnswer)
    ELSE update_attribute(st,
            serialize(<<DaikinAttribute(HVAC_TO_TEMP_HEX[st.hvac_mode],
                            S(Format02x(DoubledInt(temperature))),
                            <<"e_1002", "e_3001">>, EP_0100)>>).val,
            reply, refresh)

\* A mutant of set_temperature that commits the target before the write
set_temperature_commit_first(st, temperature, reply, refresh) ==
    IF st.hvac_mode \notin DOMAIN HVAC_TO_TEMP_HEX
    THEN Outcome(st, FALSE, <<>>, <<>>, 0, NoAnswer)
    ELSE Only({IF w.raised THEN w
               ELSE [w EXCEPT !.st.target_temperature = N(temperature)] :
               w \in {update_attribute(
                         [st EXCEPT !.target_temperature = N(temperature)],
                         serialize(<<DaikinAttribute(
                             HVAC_TO_TEMP_HEX[st.hvac_mode],
                             S(Format02x(DoubledInt(temperature))),
                             <<"e_1002", "e_3001">>, EP_0100)>>).val,
                         reply, refresh)}})

\* A mutant of set_temperature that writes p_02 in a mode without a
\* temperature parameter
set_temperature_default_parameter(st, temperature, reply, refresh) ==
    Only({IF w.raised THEN w
          ELSE [w EXCEPT !.st.target_temperature = N(temperature)] :
          w \in {update_attribute(st,
                    serialize(<<DaikinAttribute(
                        IF st.hvac_mode \in DOMAIN HVAC_TO_TEMP_HEX
                        THEN HVAC_TO_TEMP_HEX[st.hvac_mode] ELSE "p_02",
                        S(Format02x(DoubledInt(temperature))),
                        <<"e_1002", "e_3001">>, EP_0100)>>).val,
                    reply, refresh)}})

\* set_temperature(temperature): nothing in a mode without a temperature
\* parameter; else one write of format(int(temperature * 2), '02x') and, if
\* update_attribute returns, the requested temperature becomes the target
set_temperature(st, temperature, reply, refresh) ==
    IF st.hvac_mode \notin DOMAIN HVAC_TO_TEMP_HEX
    THEN Outcome(st, FALSE, <<>>, <<>>, 0, NoAnswer)
    ELSE LET temperature_hex == Format02x(DoubledInt(temperature))
             temp_attr == DaikinAttribute(HVAC_TO_TEMP_HEX[st.hvac_mode],
                              S(temperature_hex), <<"e_1002", "e_3001">>, EP_0100)
         IN  Only({IF w.raised THEN w
                   ELSE [w EXCEPT !.st.target_temperature = N(temperature)] :
                   w \in {update_attribute(st, serialize(<<temp_attr>>).val,
                                           reply, refresh)}})

\* _update_state(state): the power write, "01" for on and "00" for off
update_state(st, state, reply, refresh) ==
    update_attribute(st,
        serialize(<<DaikinAttribute("p_01",
                        S(IF state THEN <<"0", "1">> ELSE <<"0", "0">>),
                        <<"e_1002", "e_A002">>, EP_0100)>>).val,
        reply, refresh)

turn_off(st, reply, refresh) == update_state(st, FALSE, reply, refresh)
turn_on(st, reply, refresh) == update_state(st, TRUE, reply, refresh)

\* A mutant of set_hvac_mode that writes the mode before it turns the unit on
set_hvac_mode_mode_first(st, hvac_mode, reply1, refresh1, reply2, refresh2) ==
    IF hvac_mode = "off" THEN turn_off(st, reply1, refresh1)
    ELSE IF hvac_mode \notin DOMAIN REVERSE_MODE_MAP
    THEN Raised(st, ExceptionUnknownMode, <<>>, <<>>)
    ELSE Only({
            IF w.raised THEN w
            ELSE Only({[on EXCEPT !.sent = w.sent \o on.sent,
                                  !.replies = w.replies \o on.replies,
                                  !.refreshes = w.refreshes + on.refreshes,
                                  !.answer = IF on.refreshes = 0 THEN w.answer
                                             ELSE on.answer] :
                       on \in {turn_on(w.st, reply2, refresh2)}}) :
            w \in {update_attribute(st,
                      serialize(<<DaikinAttribute("p_01",
                          S(REVERSE_MODE_MAP[hvac_mode]),
                          <<"e_1002", "e_3001">>, EP_0100)>>).val,
                      reply1, refresh1)}})

\* set_hvac_mode(hvac_mode): turn_off for OFF; else turn_on and, if that
\* returns, the write of the mode code
set_hvac_mode(st, hvac_mode, reply1, refresh1, reply2, refresh2) ==
    IF hvac_mode = "off" THEN turn_off(st, reply1, refresh1)
    ELSE IF hvac_mode \notin DOMAIN REVERSE_MODE_MAP
    THEN Raised(st, ExceptionUnknownMode, <<>>, <<>>)
    ELSE Only({
            IF on.raised THEN on
            ELSE Only({[w EXCEPT !.sent = on.sent \o w.sent,
                                 !.replies = on.replies \o w.replies,
                                 !.refreshes = on.refreshes + w.refreshes,
                                 !.answer = IF w.refreshes = 0 THEN on.answer
                                            ELSE w.answer] :
                       w \in {update_attribute(on.st,
                                 serialize(<<DaikinAttribute("p_01",
                                     S(REVERSE_MODE_MAP[hvac_mode]),
                                     <<"e_1002", "e_3001">>, EP_0100)>>).val,
                                 reply2, refresh2)}}) :
            on \in {turn_on(st, reply1, refresh1)}})

\* The refresh the coordinator awaits, self._climate.async_update(): the
\* refresh of the entity is update(), which returns normally whatever
\* happened
async_update(st, answer) == Go(Update(st, answer))

UpdateFailed == [type |-> "UpdateFailed"]

\* DaikinDataUpdateCoordinator._async_update_data: the refresh, then the
\* data of the poll, read from the fields; UpdateFailed if the refresh raised
async_update_data(st, answer) ==
    Only({IF r.raised
          THEN [Outcome(r.st, TRUE, <<>>, <<>>, 1, answer)
                    EXCEPT !.error = UpdateFailed]
          ELSE Outcome(r.st, FALSE, <<>>, <<>>, 1, answer) :
          r \in {async_update(st, answer)}})

\* A mutant of set_swing_mode that writes the parameters of e_3001 only
set_swing_mode_primary_only(st, swing_mode, reply, refresh) ==
    IF st.hvac_mode = "off"
    THEN Outcome(st, FALSE, <<>>, <<>>, 0, NoAnswer)
    ELSE update_attribute(st,
            serialize(<<
                DaikinAttribute(HVAC_MODE_TO_SWING_ATTR_NAMES[st.hvac_mode][2],
                    S(IF swing_mode \in {"both", "horizontal"}
                      THEN TURN_ON_SWING_AXIS ELSE TURN_OFF_SWING_AXIS),
                    <<"e_1002", "e_3001">>, EP_0100),
                DaikinAttribute(HVAC_MODE_TO_SWING_ATTR_NAMES[st.hvac_mode][1],
                    S(IF swing_mode \in {"both", "vertical"}
                      THEN TURN_ON_SWING_AXIS ELSE TURN_OFF_SWING_AXIS),
                    <<"e_1002", "e_3001">>, EP_0100)>>).val,
            reply, refresh)

\* set_swing_mode(swing_mode): nothing when the unit is OFF; else one
\* request with the axis commands in the mode's parameters of e_3001, in
\* p_20 and p_21 of e_3001, and in the mode's parameters of e_3003
set_swing_mode(st, swing_mode, reply, refresh) ==
    IF st.hvac_mode = "off"
    THEN Outcome(st, FALSE, <<>>, <<>>, 0, NoAnswer)
    ELSE LET vertical_axis_command ==
                 IF swing_mode \in {"both", "vertical"}
                 THEN TURN_ON_SWING_AXIS ELSE TURN_OFF_SWING_AXIS
             horizontal_axis_command ==
                 IF swing_mode \in {"both", "horizontal"}
                 THEN TURN_ON_SWING_AXIS ELSE TURN_OFF_SWING_AXIS
             vertical_attr_name == HVAC_MODE_TO_SWING_ATTR_NAMES[st.hvac_mode][1]
             horizontal_attr_name == HVAC_MODE_TO_SWING_ATTR_NAMES[st.hvac_mode][2]
             attrs ==
                 <<DaikinAttribute(horizontal_attr_name, S(horizontal_axis_command),
                                   <<"e_1002", "e_3001">>, EP_0100),
                   DaikinAttribute(vertical_attr_name, S(vertical_axis_command),
                                   <<"e_1002", "e_3001">>, EP_0100)>>
                 \o (IF vertical_attr_name # "p_20"
                     THEN <<DaikinAttribute("p_20", S(vertical_axis_command),
                                            <<"e_1002", "e_3001">>, EP_0100)>>
                     ELSE <<>>)
                 \o (IF horizontal_attr_name # "p_21"
                     THEN <<DaikinAttribute("p_21", S(horizontal_axis_command),
                                            <<"e_1002", "e_3001">>, EP_0100)>>
                     ELSE <<>>)
                 \o <<DaikinAttribute(horizontal_attr_name, S(horizontal_axis_command),
                                      <<"e_1002", "e_3003">>, EP_0100),
                      DaikinAttribute(vertical_attr_name, S(vertical_axis_command),
                                      <<"e_1002", "e_3003">>, EP_0100)>>
         IN  update_attribute(st, serialize(attrs).val, reply, refresh)

\* The address the entity was constructed with
IpAddress == <<"1", "0", ".", "0", ".", "0", ".", "7">>

\* f"daikin_{self._ip_address.replace('.', '_')}"
FallbackId ==
    S(<<"d", "a", "i", "k", "i", "n", "_">>
      \o [i \in 1..Len(IpAddress) |->
             IF IpAddress[i] = "." THEN "_" ELSE IpAddress[i]])

\* format_mac(mac) of the device registry, for the characters of a MAC
\* address: seventeen characters with five colons are lowered; five dashes
\* or two dots are dropped; twelve characters are lowered and joined in
\* pairs by colons; anything else is returned as it is.  len() of a number
\* raises TypeError.
format_mac(mac) ==
    IF ~IsStr(mac) THEN Raise
    ELSE LET lower(c) == IF c \in DOMAIN DigitValues
                         THEN LowerDigits[DigitValues[c] + 1] ELSE c
             count(c) == Cardinality({i \in 1..Len(mac.v) : mac.v[i] = c})
             without(c) == SelectSeq(mac.v, LAMBDA x : x # c)
             to_test == IF Len(mac.v) = 17 /\ count("-") = 5 THEN without("-")
                        ELSE IF Len(mac.v) = 14 /\ count(".") = 2
                        THEN without(".") ELSE mac.v
         IN  IF Len(mac.v) = 17 /\ count(":") = 5
             THEN Ok(S([i \in 1..17 |-> lower(mac.v[i])]))
             ELSE IF Len(to_test) = 12
             THEN Ok(S([i \in 1..17 |->
                          IF i % 3 = 0 THEN ":"
                          ELSE lower(to_test[i - (i \div 3)])]))
             ELSE Ok(mac)

\* A mutant of initialize_unique_id that leaves the identity unset when the
\* request fails
initialize_unique_id_unset_on_failure(st, answer) ==
    IF ~answer.ok THEN st
    ELSE [st EXCEPT !.mac = FallbackId]

\* initialize_unique_id(): the formatted MAC when the lookup of adp_i / mac
\* finds one; the id made of the address when it finds none or anything
\* raises
initialize_unique_id(st, answer) ==
    IF ~answer.ok THEN [st EXCEPT !.mac = FallbackId]
    ELSE LET mac_value == find_value_by_pn(answer.json, EP_ADP,
                                           <<"adp_i", "mac">>).val
         IN  IF IsNone(mac_value) THEN [st EXCEPT !.mac = FallbackId]
             ELSE IF format_mac(mac_value).raised
             THEN [st EXCEPT !.mac = FallbackId]
             ELSE [st EXCEPT !.mac = format_mac(mac_value).val]

\* f"{n:02X}" for 0 <= n < 16
Format02X(n) == <<"0", UpperDigits[n + 1]>>

\* The value set_fan_mode writes to p_2A, a single byte: int(fan_mode[-1])
\* is the number of the level
FanModeSingleByte(fan_mode) ==
    CASE fan_mode = "Auto" -> <<"0", "0">>
      [] fan_mode = "Quiet" -> <<"0", "B">>
      [] fan_mode = "Level 5" -> <<"0", "9">>
      [] OTHER -> Format02X((CHOOSE i \in 1..5 : FanLevels[i] = fan_mode) + 2)

\* set_fan_mode(fan_mode), for a fan mode of the entity's list: in a mode
\* without a fan parameter the field becomes Auto and nothing is sent; else
\* one write of the mode's parameter, in e_3003 for p_2A and in e_3001 for
\* the others
set_fan_mode(st, fan_mode, reply, refresh) ==
    IF st.hvac_mode \notin DOMAIN HVAC_MODE_TO_FAN_SPEED_ATTR_NAME
    THEN Outcome([st EXCEPT !.fan_mode = "Auto"], FALSE, <<>>, <<>>, 0, NoAnswer)
    ELSE LET name == HVAC_MODE_TO_FAN_SPEED_ATTR_NAME[st.hvac_mode]
             entity_name == FAN_SPEED_ENTITY_MAP(name)
         IN  update_attribute(st,
                 serialize(<<DaikinAttribute(name,
                     S(IF entity_name = "e_3001" THEN FAN_MODE_MAP[fan_mode]
                       ELSE FanModeSingleByte(fan_mode)),
                     <<"e_1002", entity_name>>, EP_0100)>>).val,
                 reply, refresh)

----------------------------------------------------------------------------
(* Specification Spec: the adapter against a device that answers freely *)

\* The answer to a write: the one response entry and its status code
WriteAck(rsc) ==
    [ok |-> TRUE, json |-> Document(<<D([fr |-> S(EP_0100), rsc |-> N(rsc)])>>)]

\* An answer with one response entry for each of the status codes
WriteAcks(codes) ==
    [ok |-> TRUE,
     json |-> Document([i \in 1..Len(codes) |->
                           D([fr |-> S(EP_0100), rsc |-> N(codes[i])])])]

WriteReplies ==
    {TransportFailure, WriteAck(2004), WriteAck(2000), WriteAck(4000),
     WriteAck(4001), WriteAck(5000), WriteAcks(<<2004, 4000>>)}

\* The status tree of a unit: the power state, the mode code, the children
\* of e_3001 besides the mode, and the children of e_A00B
StatusOf(power, mode, params, sensors) ==
    Branch("dgc_status", <<
        Branch("e_1002", <<
            Branch("e_A002", <<Leaf("p_01", S(power))>>),
            Branch("e_3001", <<Leaf("p_01", S(mode))>> \o params),
            Branch("e_3003", <<Leaf("p_2A", S(<<"0", "B">>))>>),
            Branch("e_A00B", sensors)>>)>>)

DeviceDocument(power, mode, params, sensors) ==
    Document(<<Response(EP_0100, 2000, StatusOf(power, mode, params, sensors)),
               Response(EP_0200, 2000, OutdoorTree),
               WeekPower(<<Datas, TodayRuntime>>)>>)

Sensors(temp, humidity) == <<Leaf("p_01", temp), Leaf("p_02", humidity)>>

On == <<"0", "1">>
Off == <<"0", "0">>

\* Units that are on in a mode with a target temperature, reporting two-digit
\* hex temperatures: the target h[1] and the indoor temperature h[2]
HexPairs ==
    {<<h2, h1>> : h2 \in {<<"2", "C">>, <<"1", "f">>},
                  h1 \in {<<"1", "8">>, <<"0", "A">>}}

HeatingCoolingDocuments ==
    {DeviceDocument(On, REVERSE_MODE_MAP[m],
                    <<Leaf(HVAC_TO_TEMP_HEX[m], S(h[1])),
                      Leaf("p_09", S(<<"0", "A", "0", "0">>))>>,
                    Sensors(S(h[2]), S(<<"3", "2">>))) :
        m \in DOMAIN HVAC_TO_TEMP_HEX, h \in HexPairs}

\* Units in the other modes, and answers with a missing or malformed field
OtherDocuments ==
    {DeviceDocument(On, <<"0", "0", "0", "0">>, <<>>,
                    Sensors(S(<<"1", "8">>), S(<<"3", "2">>))),
     DeviceDocument(On, <<"0", "5", "0", "0">>, <<Leaf("p_02", S(<<"2", "C">>))>>,
                    Sensors(S(<<"1", "8">>), S(<<"3", "2">>))),
     DeviceDocument(Off, <<"0", "2", "0", "0">>, <<Leaf("p_02", S(<<"2", "C">>))>>,
                    Sensors(S(<<"1", "8">>), S(<<"3", "2">>))),
     DeviceDocument(On, <<"0", "2", "0", "0">>,
                    <<Leaf("p_02", S(<<"1", "0", "0", "0">>))>>,
                    Sensors(S(<<"1", "8">>), S(<<"3", "2">>))),
     DeviceDocument(On, <<"0", "2", "0", "0">>, <<Leaf("p_02", N(44))>>,
                    Sensors(S(<<"1", "9">>), S(<<"3", "3">>))),
     DeviceDocument(On, <<"0", "2", "0", "0">>, <<Leaf("p_02", S(<<"2", "E">>))>>,
                    Sensors(S(<<"1", "9">>), S(<<"z", "z">>))),
     DeviceDocument(On, <<"0", "1", "0", "0">>, <<>>,
                    <<Leaf("p_02", S(<<"3", "2">>))>>),
     Document(<<>>)}

RefreshAnswers ==
    {TransportFailure}
    \cup {Answer(doc) : doc \in HeatingCoolingDocuments \cup OtherDocuments}

\* The answers a refresh can get after a write was answered with `reply`:
\* update_attribute refreshes only after rsc 2004
RefreshesAfter(reply) ==
    IF reply.ok /\ FirstRsc(reply.json) = Ok(N(2004))
    THEN RefreshAnswers ELSE {NoAnswer}

\* The temperatures a user asks for, in tenths of a degree: on and off the
\* half-degree grid, and 12.0, which min_temp = 10 admits
Temperatures == {120, 220, 223}

\* What is kept of a call: the operation and its argument, whether it
\* raised and what, the requests sent and the answers to them, the number of
\* refreshes and the document the last refresh read
CallOf(op, arg, out) ==
    [op |-> op, arg |-> arg, raised |-> out.raised, error |-> out.error,
     sent |-> out.sent, replies |-> out.replies, refreshes |-> out.refreshes,
     answer |-> IF out.answer.ok THEN [ok |-> TRUE, json |-> out.answer.json]
                ELSE out.answer]

Init ==
    /\ self = InitSelf
    /\ call = NoCall
    /\ attributes = <<>> /\ payload = serialize(<<>>)
    /\ data = D(<<>>) /\ fr = "" /\ keys = <<>> /\ found = NotCalled

\* The answers to the read of the adapter identity: none, a tree with a mac
\* node, a tree without one, a mac that is a number, no response entry
IdentityAnswers ==
    {TransportFailure}
    \cup {[ok |-> TRUE, json |-> doc] : doc \in
            {Document(<<Response(EP_ADP, 2000, Branch("adp_i", <<
                 Leaf("ssid", S(<<"D", "a">>)),
                 Leaf("mac", S(<<"0", "0", "1", "1", "2", "2",
                                 "A", "A", "B", "B", "C", "C">>))>>))>>),
             Document(<<Response(EP_ADP, 2000, Branch("adp_i", <<
                 Leaf("ssid", S(<<"D", "a">>))>>))>>),
             Document(<<Response(EP_ADP, 2000, Branch("adp_i", <<
                 Leaf("mac", N(7))>>))>>),
             Document(<<>>)}}

\* Setup: initialize_unique_id() is the first call on a new entity; the
\* handlers run after it
InitializeUniqueId ==
    /\ call = NoCall /\ self.mac = None
    /\ \E answer \in IdentityAnswers :
        \E st \in {initialize_unique_id(self, answer)} :
            /\ self' = st
            /\ call' = CallOf("initialize_unique_id", None,
                              Outcome(st, FALSE, <<>>, <<>>, 0, answer))
            /\ UNCHANGED <<serVars, findVars>>

\* The entity is refreshed: update()
Refresh ==
    /\ call = NoCall /\ self.mac # None
    /\ \E answer \in RefreshAnswers :
        \E st \in {Update(self, answer)} :
            /\ self' = st
            /\ call' = CallOf("update", None,
                              Outcome(st, FALSE, <<>>, <<>>, 1, answer))
            /\ UNCHANGED <<serVars, findVars>>

SetTemperature ==
    /\ call = NoCall /\ self.mac # None
    /\ \E t \in Temperatures, reply \in WriteReplies :
        \E refresh \in RefreshesAfter(reply) :
            \E out \in {set_temperature(self, t, reply, refresh)} :
                /\ self' = out.st
                /\ call' = CallOf("set_temperature", N(t), out)
                /\ UNCHANGED <<serVars, findVars>>

\* The answers to the refreshes of set_hvac_mode and set_fan_mode: no answer, a unit that is
\* on and cooling, and a unit that is off
HvacRefreshAnswers ==
    {TransportFailure,
     Answer(DeviceDocument(On, <<"0", "2", "0", "0">>,
                           <<Leaf("p_02", S(<<"2", "C">>)),
                             Leaf("p_09", S(<<"0", "A", "0", "0">>))>>,
                           Sensors(S(<<"1", "8">>), S(<<"3", "2">>)))),
     Answer(DeviceDocument(Off, <<"0", "2", "0", "0">>,
                           <<Leaf("p_02", S(<<"2", "C">>))>>,
                           Sensors(S(<<"1", "8">>), S(<<"3", "2">>))))}

\* The answers to a refresh of set_hvac_mode after a write answered with `reply`
HvacRefreshesAfter(reply) ==
    IF RefreshesAfter(reply) = {NoAnswer} THEN {NoAnswer} ELSE HvacRefreshAnswers

SetHvacMode ==
    /\ call = NoCall /\ self.mac # None
    /\ \E m \in HVACModes, reply1 \in WriteReplies :
        \E refresh1 \in HvacRefreshesAfter(reply1) :
            \E reply2 \in IF m = "off" \/ refresh1 = NoAnswer
                          THEN {TransportFailure} ELSE WriteReplies :
                \E refresh2 \in IF m = "off" \/ refresh1 = NoAnswer
                                THEN {NoAnswer} ELSE HvacRefreshesAfter(reply2) :
                    \E out \in {set_hvac_mode(self, m, reply1, refresh1,
                                             reply2, refresh2)} :
                        /\ self' = out.st
                        /\ call' = CallOf("set_hvac_mode", S(m), out)
                        /\ UNCHANGED <<serVars, findVars>>

\* The parameters a write request carries in its first branch `entity` of
\* e_1002
WrittenUnder(request, entity) ==
    LET branches ==
            SelectSeq(request.v.requests.v[1].v.pc.v.pch.v[1].v.pch.v,
                      LAMBDA b : PyEq(Get(b, "pn"), S(entity)))
    IN  IF branches = <<>> THEN <<>> ELSE branches[1].v.pch.v

\* The answers of a unit that took the writes of `sent` as they are: it is
\* on in `mode` and reports the written parameters where they were written
EchoAnswers(mode, sent) ==
    IF sent = <<>> \/ mode \notin DOMAIN REVERSE_MODE_MAP THEN {}
    ELSE {Answer(Document(<<
              Response(EP_0100, 2000,
                  Branch("dgc_status", <<
                      Branch("e_1002", <<
                          Branch("e_A002", <<Leaf("p_01", S(On))>>),
                          Branch("e_3001",
                              <<Leaf("p_01", S(REVERSE_MODE_MAP[mode]))>>
                              \o WrittenUnder(sent[1], "e_3001")),
                          Branch("e_3003", WrittenUnder(sent[1], "e_3003")),
                          Branch("e_A00B",
                              Sensors(S(<<"1", "8">>), S(<<"3", "2">>)))>>)>>)),
              Response(EP_0200, 2000, OutdoorTree),
              WeekPower(<<Datas, TodayRuntime>>)>>))}

\* The fan modes a user asks for: one for each branch of set_fan_mode
FanModeRequests == {"Auto", "Quiet", "Level 1", "Level 5"}

SetFanMode ==
    /\ call = NoCall /\ self.mac # None
    /\ \E f \in FanModeRequests, reply \in WriteReplies :
        \E refresh \in
              IF RefreshesAfter(reply) = {NoAnswer} THEN {NoAnswer}
              ELSE HvacRefreshAnswers
                   \cup EchoAnswers(self.hvac_mode,
                           set_fan_mode(self, f, TransportFailure, NoAnswer).sent) :
            \E out \in {set_fan_mode(self, f, reply, refresh)} :
                /\ self' = out.st
                /\ call' = CallOf("set_fan_mode", S(f), out)
                /\ UNCHANGED <<serVars, findVars>>

\* The swing modes of the entity
SwingModes == {"off", "both", "vertical", "horizontal"}

SetSwingMode ==
    /\ call = NoCall /\ self.mac # None
    /\ \E sw \in SwingModes, reply \in WriteReplies :
        \E refresh \in
              IF RefreshesAfter(reply) = {NoAnswer} THEN {NoAnswer}
              ELSE HvacRefreshAnswers
                   \cup EchoAnswers(self.hvac_mode,
                           set_swing_mode(self, sw, TransportFailure, NoAnswer).sent) :
            \E out \in {set_swing_mode(self, sw, reply, refresh)} :
                /\ self' = out.st
                /\ call' = CallOf("set_swing_mode", S(sw), out)
                /\ UNCHANGED <<serVars, findVars>>

\* The coordinator polls: _async_update_data()
Poll ==
    /\ call = NoCall /\ self.mac # None
    /\ \E answer \in HvacRefreshAnswers :
        \E out \in {async_update_data(self, answer)} :
            /\ self' = out.st
            /\ call' = CallOf("_async_update_data", None, out)
            /\ UNCHANGED <<serVars, findVars>>

TurnOn ==
    /\ call = NoCall /\ self.mac # None
    /\ \E reply \in WriteReplies :
        \E refresh \in RefreshesAfter(reply) :
            \E out \in {turn_on(self, reply, refresh)} :
                /\ self' = out.st
                /\ call' = CallOf("turn_on", None, out)
                /\ UNCHANGED <<serVars, findVars>>

TurnOff ==
    /\ call = NoCall /\ self.mac # None
    /\ \E reply \in WriteReplies :
        \E refresh \in RefreshesAfter(reply) :
            \E out \in {turn_off(self, reply, refresh)} :
                /\ self' = out.st
                /\ call' = CallOf("turn_off", None, out)
                /\ UNCHANGED <<serVars, findVars>>

\* The call returns to its caller: the record of the call is dropped before
\* the next call begins
Return ==
    /\ call # NoCall
    /\ call' = NoCall
    /\ UNCHANGED <<self, serVars, findVars>>

Next ==
    \/ InitializeUniqueId
    \/ Refresh \/ Poll \/ SetTemperature \/ SetHvacMode \/ SetFanMode
    \/ SetSwingMode
    \/ TurnOn \/ TurnOff \/ Return

Spec == Init /\ [][Next]_vars

----------------------------------------------------------------------------
(* Properties of the codec, checked under SpecSer *)

\* The requests list of the serialized document
Requests == payload.val.v.requests.v

\* The request entry serialize built for endpoint `to`
EntryFor(to) == Requests[get_existing_to(to, Requests)]

\* The response a device gives when it echoes a request entry's tree
EchoOf(entry) ==
    D([responses |-> L(<<D([fr |-> entry.v.to, rsc |-> N(2004),
                            pc |-> entry.v.pc])>>)])

\* leaf is a child of the node reached from `children` through the branches
\* named by `path`, in order
RECURSIVE HasLeafAt(_, _, _)
HasLeafAt(children, path, leaf) ==
    IF path = <<>> THEN \E i \in 1..Len(children) : children[i] = leaf
    ELSE \E i \in 1..Len(children) :
            /\ PyEq(Get(children[i], "pn"), S(Head(path)))
            /\ "pch" \in DOMAIN children[i].v
            /\ HasLeafAt(children[i].v.pch.v, Tail(path), leaf)

\* No two sibling branches of the tree carry the same name
RECURSIVE NoDuplicateBranch(_)
NoDuplicateBranch(children) ==
    /\ \A i, j \in 1..Len(children) :
          (/\ i # j
           /\ "pch" \in DOMAIN children[i].v
           /\ "pch" \in DOMAIN children[j].v)
          => children[i].v.pn # children[j].v.pn
    /\ \A i \in 1..Len(children) :
          "pch" \in DOMAIN children[i].v
          => NoDuplicateBranch(children[i].v.pch.v)

\* C1: a single write with a non-empty path, serialized and echoed back as
\* the pc of the response from the write's endpoint, is read back by
\* find_value_by_pn(endpoint, "dgc_status", path..., name) as the written
\* value.
C1_RoundTrip ==
    (Len(attributes) = 1 /\ attributes[1].path # <<>> /\ ~payload.raised)
    => LET a == attributes[1]
       IN  PyEq(find_value_by_pn(EchoOf(Requests[1]), a.to,
                    <<"dgc_status">> \o a.path \o <<a.name>>).val,
                a.value)

\* C2: serialize places every write's leaf under the node reached through
\* that write's own path from its endpoint's root.
C2_LeafUnderOwnPath ==
    ~payload.raised
    => \A i \in 1..Len(attributes) :
          HasLeafAt(EntryFor(attributes[i].to).v.pc.v.pch.v,
                    attributes[i].path, Format(attributes[i]))

\* C3: the document has exactly one request entry per distinct endpoint,
\* each with op 3, root dgc_status and to = the endpoint, and no tree has two
\* sibling branches of the same name.
C3_OneEntryPerEndpoint ==
    ~payload.raised
    => /\ Len(Requests) = Cardinality({attributes[i].to : i \in 1..Len(attributes)})
       /\ \A i \in 1..Len(attributes) :
             \E k \in 1..Len(Requests) : Requests[k].v.to = S(attributes[i].to)
       /\ \A k \in 1..Len(Requests) :
             /\ Requests[k].v.op = N(3)
             /\ Requests[k].v.pc.v.pn = S("dgc_status")
             /\ \E i \in 1..Len(attributes) :
                   Requests[k].v.to = S(attributes[i].to)
             /\ NoDuplicateBranch(Requests[k].v.pc.v.pch.v)

\* C3 witness: two writes to one endpoint whose paths share the prefix
\* e_1002 and then diverge, and a third write to another endpoint.
C3_Witness ==
    /\ Len(attributes) = 3
    /\ ~payload.raised
    /\ attributes[1].path = <<"e_1002", "e_3001">>
    /\ attributes[2].path = <<"e_1002", "e_3003">>
    /\ attributes[1].to = attributes[2].to
    /\ attributes[3].to # attributes[1].to
    /\ Len(Requests) = 2

----------------------------------------------------------------------------
(* Properties of find_value_by_pn, checked under SpecFind *)

\* The pv values at the end of a chain of nested pch children whose pn
\* values are the names of `path`, in order, below `children`
RECURSIVE ChainValues(_, _)
ChainValues(children, path) ==
    IF ~IsList(children) THEN {}
    ELSE UNION {
        LET c == children.v[i]
        IN  IF IsDict(c) /\ PyEq(Get(c, "pn"), S(Head(path)))
            THEN IF Len(path) = 1
                 THEN (IF "pv" \in DOMAIN c.v THEN {c.v.pv} ELSE {})
                 ELSE ChainValues(Get(c, "pch"), Tail(path))
            ELSE {}
        : i \in 1..Len(children.v)}

HasResponsesList == "responses" \in DOMAIN data.v /\ IsList(data.v.responses)

\* The response entries that answer for endpoint fr
EntriesFor ==
    IF HasResponsesList
    THEN SelectSeq(data.v.responses.v,
                   LAMBDA x : IsDict(x) /\ PyEq(Get(x, "fr"), S(fr)))
    ELSE <<>>

\* The values the path keys[2..] leads to in the tree of the entry for fr,
\* whose root is named keys[1]
PathValues ==
    IF EntriesFor = <<>> THEN {}
    ELSE LET pc == Get(EntriesFor[1], "pc")
         IN  IF IsDict(pc) /\ PyEq(Get(pc, "pn"), S(keys[1]))
             THEN ChainValues(Get(pc, "pch"), Tail(keys))
             ELSE {}

\* C4: when every response entry is an object and the entry for the
\* endpoint holds a chain of pch children matching the path, the lookup
\* returns the pv at the end of the chain, whatever the segment names.
C4_ReturnsValueAtPath ==
    (/\ found.called
     /\ HasResponsesList
     /\ \A i \in 1..Len(data.v.responses.v) : IsDict(data.v.responses.v[i])
     /\ PathValues # {})
    => (~found.raised /\ found.val \in PathValues)

\* C5: with a responses list, the lookup never raises, and returns None when
\* no entry answers for the endpoint or the path leads to no node.
C5_AbsentWhenNotFound ==
    (found.called /\ HasResponsesList)
    => /\ ~found.raised
       /\ PathValues = {} => found.val = None

\* C6 as stated: a document without a responses key makes the lookup raise.
C6_MissingResponsesRaises ==
    (found.called /\ "responses" \notin DOMAIN data.v) => found.raised

\* C6 as amended: a document without a responses key makes the lookup
\* return None, as for a path that is not found, and nothing is raised.
C6_MissingResponsesIsAbsent ==
    (found.called /\ "responses" \notin DOMAIN data.v)
    => (~found.raised /\ found.val = None)

\* C6 witness: the lookup of the power state was made in a document that has
\* an error member and no responses.
C6_Witness ==
    /\ found.called
    /\ data = D([error |-> S(<<"x">>)])
    /\ fr = EP_0100
    /\ keys = <<"dgc_status", "e_1002", "e_A002", "p_01">>

----------------------------------------------------------------------------
(* Properties of update and set_temperature, checked under Spec *)

\* The pv values the path ks[2..] leads to in the tree, rooted at ks[1], of
\* the first response entry of the document that answers for the endpoint
ResponseValues(json, endpoint, ks) ==
    IF ~("responses" \in DOMAIN json.v /\ IsList(json.v.responses)) THEN {}
    ELSE LET entries == SelectSeq(json.v.responses.v,
                            LAMBDA x : IsDict(x) /\ PyEq(Get(x, "fr"), S(endpoint)))
         IN  IF entries = <<>> THEN {}
             ELSE LET pc == Get(entries[1], "pc")
                  IN  IF IsDict(pc) /\ PyEq(Get(pc, "pn"), S(ks[1]))
                      THEN ChainValues(Get(pc, "pch"), Tail(ks))
                      ELSE {}

\* The values of parameter `name` of `entity` in the status tree
StatusValues(json, entity, name) ==
    ResponseValues(json, EP_0100, <<"dgc_status", "e_1002", entity, name>>)

\* The parameter has the one value x in the status tree
StatusIs(json, entity, name, x) ==
    /\ Cardinality(StatusValues(json, entity, name)) = 1
    /\ \A v \in StatusValues(json, entity, name) : PyEq(v, x)

\* A string of two hex digits, and the number it writes
IsTwoHex(x) ==
    IsStr(x) /\ Len(x.v) = 2 /\ \A i \in 1..2 : x.v[i] \in DOMAIN DigitValues
TwoHexValue(x) == 16 * DigitValues[x.v[1]] + DigitValues[x.v[2]]

\* The last call was a set_temperature whose first write, of the requested
\* setpoint, the device answered with the status code rsc
SetpointAnswered(rsc) ==
    /\ call.op = "set_temperature"
    /\ call.replies # <<>>
    /\ call.replies[1] = WriteAck(rsc)

\* C7: after a refresh that read a status tree with power "01", a mode code
\* of a mode with a temperature parameter, a two-digit hex indoor temperature
\* h1 and a two-digit hex target h2 in the mode's parameter, hvac_mode is the
\* mode of the code, current_temperature is int(h1, 16) and
\* target_temperature is int(h2, 16) / 2.
C7_RefreshDecodes ==
    (call.op = "update" /\ call.answer.ok)
    => \A code \in DOMAIN MODE_MAP :
          (/\ MODE_MAP[code] \in DOMAIN HVAC_TO_TEMP_HEX
           /\ StatusIs(call.answer.json, "e_A002", "p_01", S(<<"0", "1">>))
           /\ StatusIs(call.answer.json, "e_3001", "p_01", S(code)))
          => \A h1 \in StatusValues(call.answer.json, "e_A00B", "p_01"),
                h2 \in StatusValues(call.answer.json, "e_3001",
                                    HVAC_TO_TEMP_HEX[MODE_MAP[code]]) :
                (/\ StatusIs(call.answer.json, "e_A00B", "p_01", h1)
                 /\ StatusIs(call.answer.json, "e_3001",
                             HVAC_TO_TEMP_HEX[MODE_MAP[code]], h2)
                 /\ IsTwoHex(h1) /\ IsTwoHex(h2))
                => /\ self.hvac_mode = MODE_MAP[code]
                   /\ self.current_temperature = N(TwoHexValue(h1) * 10)
                   /\ self.target_temperature = N(TwoHexValue(h2) * 5)

\* C7 witness: a refresh read mode "0200", indoor "18" and p_02 "2C", and the
\* fields are COOL, 24 and 22.0.
C7_Witness ==
    /\ call.op = "update" /\ call.answer.ok
    /\ StatusIs(call.answer.json, "e_A002", "p_01", S(<<"0", "1">>))
    /\ StatusIs(call.answer.json, "e_3001", "p_01", S(<<"0", "2", "0", "0">>))
    /\ StatusIs(call.answer.json, "e_A00B", "p_01", S(<<"1", "8">>))
    /\ StatusIs(call.answer.json, "e_3001", "p_02", S(<<"2", "C">>))
    /\ self.hvac_mode = "cool"
    /\ self.current_temperature = N(240)
    /\ self.target_temperature = N(220)

\* C8: a set_temperature(t) in COOL, HEAT or AUTO whose write the device
\* answers with 2004 returns normally with target_temperature = t, whatever
\* the refresh after the write read; the fields hold no adjustment record.
C8_AcknowledgedCommitsRequested ==
    [][(/\ call'.op = "set_temperature"
        /\ self.hvac_mode \in {"cool", "heat", "auto"}
        /\ call'.replies = <<WriteAck(2004)>>)
       => (/\ ~call'.raised
           /\ Len(call'.sent) = 1
           /\ self'.target_temperature = call'.arg
           /\ DOMAIN self' = DOMAIN InitSelf)]_vars

\* C8 witness: set_temperature(22.3) was acknowledged, the refresh after the
\* write read the target "2C" (22.0), and the target is 22.3.
C8_Witness ==
    /\ SetpointAnswered(2004)
    /\ ~call.raised
    /\ call.arg = N(223)
    /\ call.answer.ok
    /\ StatusIs(call.answer.json, "e_3001", "p_02", S(<<"2", "C">>))
    /\ self.hvac_mode = "cool"
    /\ self.target_temperature = N(223)

\* C9: when the device answers the write of the requested setpoint with 4000,
\* set_temperature searches: it goes on to write another setpoint.
C9_SearchesAfterRejection ==
    SetpointAnswered(4000) => Len(call.sent) > 1

\* C10: a set_temperature whose every write the device answers with 4000
\* raises, and leaves every field as it was before the call.
C10_RejectedLeavesFields ==
    [][(/\ call'.op = "set_temperature"
        /\ call'.sent # <<>>
        /\ \A i \in 1..Len(call'.replies) : call'.replies[i] = WriteAck(4000))
       => (call'.raised /\ self' = self)]_vars

\* C10 witness: set_temperature(22.3) was answered with 4000 and raised, in
\* COOL with the target 22.0 of the refresh before it.
C10_Witness ==
    /\ SetpointAnswered(4000)
    /\ call.raised
    /\ call.arg = N(223)
    /\ self.hvac_mode = "cool"
    /\ self.target_temperature = N(220)

\* The status codes of the entries of the answer to a write
RscCodes(reply) ==
    {reply.json.v.responses.v[i].v.rsc.v :
        i \in 1..Len(reply.json.v.responses.v)}

\* The i-th write of the last call was answered, and every status code of
\* the answer is outside `codes`
AnsweredOutside(c, i, codes) ==
    /\ c.replies[i].ok
    /\ RscCodes(c.replies[i]) # {}
    /\ RscCodes(c.replies[i]) \cap codes = {}

\* C11: a set_temperature one of whose writes is answered with a status code
\* that is neither a success code (2000, 2004) nor 4000 raises at once: that
\* write is the last request of the call, and target_temperature keeps the
\* value it had before the call.
C11_OtherCodeRaisesAtOnce ==
    [][(call'.op = "set_temperature")
       => \A i \in 1..Len(call'.replies) :
             AnsweredOutside(call', i, {2000, 2004, 4000})
             => (/\ call'.raised
                 /\ Len(call'.sent) = i
                 /\ call'.refreshes = 0
                 /\ self'.target_temperature = self.target_temperature)]_vars

\* C11 witness: in COOL with target 22.0, set_temperature(22.3) was answered
\* with 5000: it raised after its one write and the target is still 22.0.
C11_Witness ==
    /\ SetpointAnswered(5000)
    /\ call.raised
    /\ Len(call.sent) = 1
    /\ call.arg = N(223)
    /\ self.hvac_mode = "cool"
    /\ self.target_temperature = N(220)

\* The values a write request carries for the setpoint parameters
WrittenSetpoints(request) ==
    UNION {ChainValues(Get(request.v.requests.v[1].v.pc, "pch"),
                       <<"e_1002", "e_3001", HVAC_TO_TEMP_HEX[m]>>) :
           m \in DOMAIN HVAC_TO_TEMP_HEX}

\* C12: every setpoint a set_temperature writes to the device is two hex
\* digits encoding a temperature within 16.0 .. 30.0 degrees.
C12_SetpointsWithinRange ==
    (call.op = "set_temperature")
    => \A i \in 1..Len(call.sent) :
          \A v \in WrittenSetpoints(call.sent[i]) :
             IsTwoHex(v) /\ TwoHexValue(v) * 5 \in 160..300

\* C13: the value set_temperature(t) writes is round(t * 2) as two hex
\* digits, the nearest half degree: it is within 0.25 degrees of t.
C13_WritesNearestHalfDegree ==
    (call.op = "set_temperature")
    => \A i \in 1..Len(call.sent) :
          \A v \in WrittenSetpoints(call.sent[i]) :
             /\ IsTwoHex(v)
             /\ 10 * TwoHexValue(v) - 2 * call.arg.v \in -4..4

\* C14: a set_temperature in a mode without a temperature parameter (OFF,
\* FAN_ONLY, DRY) sends no write, runs no refresh and leaves every field as
\* it was before the call.
C14_NoParameterNoCall ==
    [][(/\ call'.op = "set_temperature"
        /\ self.hvac_mode \in {"off", "fan_only", "dry"})
       => (/\ call'.sent = <<>>
           /\ call'.replies = <<>>
           /\ call'.refreshes = 0
           /\ self' = self)]_vars

\* C14 witness: set_temperature(22.3) in DRY, after a refresh read the mode
\* and an indoor temperature of 24: nothing was sent, the fields are those
\* of the refresh.
C14_Witness ==
    /\ call.op = "set_temperature"
    /\ call.arg = N(223)
    /\ call.sent = <<>>
    /\ call.refreshes = 0
    /\ self.hvac_mode = "dry"
    /\ self.current_temperature = N(240)

\* C15: a set_fan_mode in a mode without a fan-speed parameter (OFF, DRY)
\* sends nothing, runs no refresh and changes no field: fan_mode after the
\* call is fan_mode before the call.
C15_NoFanParameterNoChange ==
    [][(/\ call'.op = "set_fan_mode"
        /\ self.hvac_mode \in {"off", "dry"})
       => (/\ call'.sent = <<>>
           /\ call'.refreshes = 0
           /\ self' = self)]_vars

\* The operations that write to the device
WriteOps ==
    {"set_temperature", "set_hvac_mode", "set_fan_mode", "set_swing_mode",
     "turn_on", "turn_off"}

\* C16: a write whose answer is a response document succeeds exactly when
\* every response entry's status code is 2000 or 2004: the call raises on
\* its last write if and only if some entry of the answer has another code.
C16_SuccessIffEveryEntryAccepted ==
    (/\ call.op \in WriteOps
     /\ call.replies # <<>>
     /\ call.replies[Len(call.replies)].ok)
    => (call.raised <=>
            ~(RscCodes(call.replies[Len(call.replies)]) \subseteq {2000, 2004}))

\* C17: the error a write answered with 4000 ends in is of another kind
\* than the error the same write ends in when it is answered with any other
\* non-success code (4001, 5000).
C17_RejectionIsItsOwnKind ==
    (/\ call.op \in WriteOps
     /\ call.raised
     /\ call.replies # <<>>
     /\ call.replies[Len(call.replies)] = WriteAck(4000))
    => \A rsc \in {4001, 5000} :
          call.error.type #
              update_attribute(self, call.sent[Len(call.sent)],
                               WriteAck(rsc), NoAnswer).error.type

\* C18: a refresh that hits a transport failure (no connection, a status
\* that is not 2xx, a body that is not JSON) leaves every field as it was.
C18_FailedRefreshKeepsFields ==
    [][(call'.op = "update" /\ ~call'.answer.ok) => self' = self]_vars

\* C18 witness: a refresh hit a transport failure after an earlier one had
\* read COOL, the target 22.0, the indoor temperature 24 and the humidity 50,
\* and the fields still hold them.
C18_Witness ==
    /\ call.op = "update"
    /\ ~call.answer.ok
    /\ self.hvac_mode = "cool"
    /\ self.target_temperature = N(220)
    /\ self.current_temperature = N(240)
    /\ self.current_humidity = N(50)

LastAnswer == CHOOSE a \in RefreshAnswers : a.ok /\ a.json = call.answer.json

\* C20: after a refresh that got a document, every field holds the value
\* decoded from that document, whatever became of the other fields: no
\* statement of update that can decode its field from the document would
\* change the fields the refresh left.
C20_FieldsDecodedIndependently ==
    (call.op = "update" /\ call.answer.ok)
    => \A i \in 1..8 :
          \A r \in {Statement(i, self, LastAnswer)} :
             ~r.raised => r.st = self

\* A string that begins with two hex digits, and the number they write
LeadsWithTwoHex(x) ==
    IsStr(x) /\ Len(x.v) >= 2 /\ \A i \in 1..2 : x.v[i] \in DOMAIN DigitValues
LeadingHexValue(x) == 16 * DigitValues[x.v[1]] + DigitValues[x.v[2]]

\* C21: after a refresh that read a status tree with power "01", a mode code
\* of a mode with a temperature parameter and, in the mode's parameter, a
\* string h that begins with two hex digits, target_temperature is
\* int(h[:2], 16) / 2 whatever the length of h: "10" and "1000" give 8.0.
C21_TargetFromLeadingHexDigits ==
    (call.op = "update" /\ call.answer.ok)
    => \A code \in DOMAIN MODE_MAP :
          (/\ MODE_MAP[code] \in DOMAIN HVAC_TO_TEMP_HEX
           /\ StatusIs(call.answer.json, "e_A002", "p_01", S(<<"0", "1">>))
           /\ StatusIs(call.answer.json, "e_3001", "p_01", S(code)))
          => \A h \in StatusValues(call.answer.json, "e_3001",
                                   HVAC_TO_TEMP_HEX[MODE_MAP[code]]) :
                (/\ StatusIs(call.answer.json, "e_3001",
                             HVAC_TO_TEMP_HEX[MODE_MAP[code]], h)
                 /\ LeadsWithTwoHex(h))
                => self.target_temperature = N(LeadingHexValue(h) * 5)

\* The mac node of the adapter tree the last call read has the value x
AdapterMacIs(x) ==
    /\ Cardinality(ResponseValues(call.answer.json, EP_ADP,
                                  <<"adp_i", "mac">>)) = 1
    /\ \A v \in ResponseValues(call.answer.json, EP_ADP, <<"adp_i", "mac">>) :
          PyEq(v, x)

\* C22: when the identity read is answered with a tree that has a mac node
\* with the twelve-digit value "001122AABBCC", initialize_unique_id sets the
\* identity to the formatted MAC "00:11:22:aa:bb:cc", not to the id made of
\* the address.
C22_IdentityIsFormattedMac ==
    (/\ call.op = "initialize_unique_id"
     /\ call.answer.ok
     /\ AdapterMacIs(S(<<"0", "0", "1", "1", "2", "2",
                         "A", "A", "B", "B", "C", "C">>)))
    => /\ self.mac # FallbackId
       /\ self.mac = S(<<"0", "0", ":", "1", "1", ":", "2", "2", ":",
                         "a", "a", ":", "b", "b", ":", "c", "c">>)

\* C23: initialize_unique_id ends with an identity that is not None; when
\* the read failed or the tree has no mac node the identity is "daikin_"
\* and the address with underscores for dots; and no later call changes the
\* identity.
C23_IdentityFallsBackAndStays ==
    [][/\ (call'.op = "initialize_unique_id")
          => /\ self'.mac # None
             /\ ~call'.raised
             /\ (\/ ~call'.answer.ok
                 \/ ResponseValues(call'.answer.json, EP_ADP,
                                    <<"adp_i", "mac">>) = {})
                => self'.mac = S(<<"d", "a", "i", "k", "i", "n", "_", "1",
                                   "0", "_", "0", "_", "0", "_", "7">>)
       /\ (self.mac # None) => self'.mac = self.mac]_vars

\* C23 witness: the identity read hit a transport failure and the identity
\* is the id made of the address.
C23_Witness ==
    /\ call.op = "initialize_unique_id"
    /\ ~call.answer.ok
    /\ self.mac = FallbackId

\* The values a write request carries for parameter `name` of `entity`
WrittenValues(request, entity, name) ==
    ChainValues(Get(request.v.requests.v[1].v.pc, "pch"),
                <<"e_1002", entity, name>>)

\* The refresh after the last write read a status tree that reports each
\* value the write carried for parameter `name` where it was written
ReportsWritten(name) ==
    /\ \E entity \in {"e_3001", "e_3003"} :
          WrittenValues(call.sent[1], entity, name) # {}
    /\ \A entity \in {"e_3001", "e_3003"} :
          \A v \in WrittenValues(call.sent[1], entity, name) :
             StatusIs(call.answer.json, entity, name, v)

\* C24: when set_fan_mode(m) was acknowledged in a mode with a fan-speed
\* parameter and the refresh after it read a unit that is on in that mode
\* and reports the written value where it was written, fan_mode = m.
C24_FanModeRoundTrip ==
    (/\ call.op = "set_fan_mode"
     /\ ~call.raised
     /\ Len(call.sent) = 1
     /\ call.answer.ok
     /\ self.hvac_mode \in DOMAIN HVAC_MODE_TO_FAN_SPEED_ATTR_NAME
     /\ ReportsWritten(HVAC_MODE_TO_FAN_SPEED_ATTR_NAME[self.hvac_mode]))
    => self.fan_mode = call.arg.v

\* The status tree reports a value with an "F" in parameter `name` of e_3001
AxisOn(json, name) ==
    \E v \in StatusValues(json, "e_3001", name) :
        IsStr(v) /\ \E i \in 1..Len(v.v) : v.v[i] = "F"

\* C25: after a refresh that read a unit that is on in the mode hvac_mode
\* holds, swing_mode is BOTH when the mode's vertical and horizontal swing
\* parameters both hold an "F", VERTICAL or HORIZONTAL when only that one
\* does, and OFF otherwise; so it is s after an acknowledged
\* set_swing_mode(s) whose values the unit reports.
C25_SwingReflectsDevice ==
    (/\ call.op \in {"update", "set_swing_mode"}
     /\ call.refreshes = 1
     /\ call.answer.ok
     /\ self.hvac_mode \in DOMAIN HVAC_MODE_TO_SWING_ATTR_NAMES
     /\ StatusIs(call.answer.json, "e_A002", "p_01", S(<<"0", "1">>))
     /\ StatusIs(call.answer.json, "e_3001", "p_01",
                 S(REVERSE_MODE_MAP[self.hvac_mode])))
    => self.swing_mode =
          CASE /\ AxisOn(call.answer.json,
                         HVAC_MODE_TO_SWING_ATTR_NAMES[self.hvac_mode][1])
               /\ AxisOn(call.answer.json,
                         HVAC_MODE_TO_SWING_ATTR_NAMES[self.hvac_mode][2])
                 -> "both"
            [] AxisOn(call.answer.json,
                      HVAC_MODE_TO_SWING_ATTR_NAMES[self.hvac_mode][1])
                 -> "vertical"
            [] AxisOn(call.answer.json,
                      HVAC_MODE_TO_SWING_ATTR_NAMES[self.hvac_mode][2])
                 -> "horizontal"
            [] OTHER -> "off"

\* The children of a node of a request tree that are named `name`
ChildrenNamed(node, name) ==
    SelectSeq(node.v.pch.v, LAMBDA b : PyEq(Get(b, "pn"), S(name)))

\* The request is one write to the status endpoint whose tree has the one
\* branch e_1002, and under it one e_3001 and one e_3003 branch and nothing
\* else, each with the value `v` in parameter `vertical` and the value `h`
\* in parameter `horizontal`
IsSwingRequest(request, vertical, v, horizontal, h) ==
    /\ Len(request.v.requests.v) = 1
    /\ request.v.requests.v[1].v.to = S(EP_0100)
    /\ request.v.requests.v[1].v.pc.v.pn = S("dgc_status")
    /\ Len(request.v.requests.v[1].v.pc.v.pch.v) = 1
    /\ \A top \in {request.v.requests.v[1].v.pc.v.pch.v[1]} :
          /\ top.v.pn = S("e_1002")
          /\ Len(top.v.pch.v) = 2
          /\ Len(ChildrenNamed(top, "e_3001")) = 1
          /\ Len(ChildrenNamed(top, "e_3003")) = 1
          /\ \A entity \in {"e_3001", "e_3003"} :
                \A b \in {ChildrenNamed(top, entity)[1]} :
                   /\ Len(ChildrenNamed(b, vertical)) = 1
                   /\ Len(ChildrenNamed(b, horizontal)) = 1
                   /\ ChildrenNamed(b, vertical)[1] = Leaf(vertical, S(v))
                   /\ ChildrenNamed(b, horizontal)[1] = Leaf(horizontal, S(h))

\* C30: set_swing_mode in OFF sends nothing, runs no refresh and changes no
\* field; in any other mode it sends exactly one request, a write to the
\* status endpoint with one e_1002 branch holding one e_3001 and one e_3003
\* branch, each with the mode's vertical and horizontal parameters, "0F0000"
\* for an axis that is on and "000000" for one that is off.
C30_SwingWriteShape ==
    [][(call'.op = "set_swing_mode")
       => IF self.hvac_mode = "off"
          THEN /\ call'.sent = <<>>
               /\ call'.refreshes = 0
               /\ self' = self
          ELSE /\ Len(call'.sent) = 1
               /\ IsSwingRequest(call'.sent[1],
                      HVAC_MODE_TO_SWING_ATTR_NAMES[self.hvac_mode][1],
                      IF call'.arg.v \in {"both", "vertical"}
                      THEN <<"0", "F", "0", "0", "0", "0">>
                      ELSE <<"0", "0", "0", "0", "0", "0">>,
                      HVAC_MODE_TO_SWING_ATTR_NAMES[self.hvac_mode][2],
                      IF call'.arg.v \in {"both", "horizontal"}
                      THEN <<"0", "F", "0", "0", "0", "0">>
                      ELSE <<"0", "0", "0", "0", "0", "0">>)]_vars

\* C30 witness: set_swing_mode("vertical") sent its one request in HEAT,
\* with p_07 = "0F0000" and p_08 = "000000" under e_3003.
C30_Witness ==
    /\ call.op = "set_swing_mode"
    /\ call.arg = S("vertical")
    /\ Len(call.sent) = 1
    /\ WrittenValues(call.sent[1], "e_3003", "p_07")
           = {S(<<"0", "F", "0", "0", "0", "0">>)}
    /\ WrittenValues(call.sent[1], "e_3003", "p_08")
           = {S(<<"0", "0", "0", "0", "0", "0">>)}

\* The values of the child `name` of the week_power tree
WeekValues(json, name) == ResponseValues(json, EP_WEEK, <<"week_power", name>>)

\* C26: after a refresh that read a week_power tree with a datas node (a
\* list of numbers) and a today_runtime node (a number), energy_today is
\* the last element of datas and runtime_today is the value of
\* today_runtime.
C26_EnergyAndRuntimeFromOwnNodes ==
    (call.op = "update" /\ call.answer.ok)
    => \A d \in WeekValues(call.answer.json, "datas"),
          r \in WeekValues(call.answer.json, "today_runtime") :
          (/\ Cardinality(WeekValues(call.answer.json, "datas")) = 1
           /\ Cardinality(WeekValues(call.answer.json, "today_runtime")) = 1
           /\ IsList(d) /\ Len(d.v) > 0 /\ IsNum(d.v[Len(d.v)])
           /\ IsNum(r))
          => /\ self.energy_today = N(d.v[Len(d.v)].v)
             /\ self.runtime_today = N(r.v)

\* C27: in every reachable state target_temperature is other than None only
\* if hvac_mode is COOL, HEAT or AUTO.
C27_TargetOnlyInTemperatureModes ==
    (self.target_temperature # None)
    => self.hvac_mode \in {"cool", "heat", "auto"}

\* The request writes the power state `power` and no mode
IsPowerWrite(request, power) ==
    /\ WrittenValues(request, "e_A002", "p_01") = {S(power)}
    /\ WrittenValues(request, "e_3001", "p_01") = {}

\* The answer carries the status code 2004 in its first response entry
FirstEntryIs2004(reply) ==
    /\ reply.ok
    /\ Len(reply.json.v.responses.v) > 0
    /\ reply.json.v.responses.v[1].v.rsc = N(2004)

\* C28: set_hvac_mode(OFF) sends the power-off write and nothing else; with
\* any other mode it first sends the power-on write, and sends the mode
\* write, second and last, only when the power-on write was acknowledged:
\* when the power-on write failed or its response entry carries a code that
\* is no success code, the mode write is not sent.
C28_PowerOnBeforeMode ==
    [][(call'.op = "set_hvac_mode")
       => IF call'.arg = S("off")
          THEN /\ Len(call'.sent) = 1
               /\ IsPowerWrite(call'.sent[1], <<"0", "0">>)
          ELSE /\ Len(call'.sent) \in {1, 2}
               /\ IsPowerWrite(call'.sent[1], <<"0", "1">>)
               /\ Len(call'.sent) = 2
                  => /\ FirstEntryIs2004(call'.replies[1])
                     /\ WrittenValues(call'.sent[2], "e_3001", "p_01")
                            = {S(REVERSE_MODE_MAP[call'.arg.v])}
                     /\ WrittenValues(call'.sent[2], "e_A002", "p_01") = {}
               /\ (\/ ~call'.replies[1].ok
                   \/ AnsweredOutside(call', 1, {2000, 2004}))
                  => Len(call'.sent) = 1]_vars

\* C28 witness: set_hvac_mode(COOL) sent the power-on write and, after its
\* acknowledgement, the mode write.
C28_Witness ==
    /\ call.op = "set_hvac_mode"
    /\ call.arg = S("cool")
    /\ ~call.raised
    /\ Len(call.sent) = 2
    /\ call.replies = <<WriteAck(2004), WriteAck(2004)>>
    /\ IsPowerWrite(call.sent[1], <<"0", "1">>)

\* C29: the writes of a call are refreshed one by one: each write whose
\* answer carries 2004 in its first response entry is followed by one
\* refresh, a write answered otherwise is the last of the call and raises
\* without a refresh, and when it is the only write of the call every field
\* is as it was.
C29_RefreshIffFirstEntry2004 ==
    [][(call'.op \in WriteOps /\ call'.sent # <<>>)
       => /\ Len(call'.replies) = Len(call'.sent)
          /\ call'.refreshes =
                Cardinality({i \in 1..Len(call'.replies) :
                                FirstEntryIs2004(call'.replies[i])})
          /\ \A i \in 1..(Len(call'.replies) - 1) :
                FirstEntryIs2004(call'.replies[i])
          /\ call'.raised <=>
                ~FirstEntryIs2004(call'.replies[Len(call'.replies)])
          /\ (Len(call'.replies) = 1 /\ call'.raised)
             => (call'.refreshes = 0 /\ self' = self)]_vars

\* C29 witness: turn_on was answered with 2004 and refreshed once; and the
\* refresh read the unit cooling.
C29_Witness ==
    /\ call.op = "turn_on"
    /\ call.replies = <<WriteAck(2004)>>
    /\ ~call.raised
    /\ call.refreshes = 1
    /\ call.answer.ok
    /\ self.hvac_mode = "cool"

====
